---- MODULE Spec2Model ----
(***************************************************************************)
(* A model of the BorderBound level solver: the board rule engine          *)
(* (src/solver/board.js), the search strategies and the worker-thread      *)
(* coordinator (src/solver/multiSolver.js and its variants), and the       *)
(* top-level caller (src/solver/main.js and its variant).                  *)
(*                                                                         *)
(* JavaScript objects are modelled as heap cells: a board holds references *)
(* to its Field objects and to its MoveSequence object, so that sharing    *)
(* between a board and its copy is something the model can express.        *)
(* A value returned by click() is modelled by its truthiness (the flood    *)
(* case returns the numbers 0/1 built by `changed |= ...`).                *)
(***************************************************************************)
EXTENDS Integers, Sequences, FiniteSets, TLC

VARIABLES
  heapFields,   \* heap of Field objects: a sequence, the index is the reference
  heapSeqs,     \* heap of MoveSequence objects: [moves, n]
  boards,       \* the Board objects in scope: name -> board record, or NULL
  last,         \* the last operation performed and what it returned
  wstate,       \* coordinator: each worker thread: "running", or how it ended
  terminated,   \* coordinator: the workers terminate() was called on
  chan,         \* coordinator: each worker's events not yet handled, in order
  resolved,     \* coordinator: the runWorker promises that are resolved
  results,      \* coordinator: the results array
  coord,        \* coordinator: "awaiting", then what it returned
  posted,       \* history: the message each worker posted, or NULL
  caller,       \* main: the existing solution, then the board chosen
  run           \* one call of a strategy: its arguments, its progress, its result

boardVars == <<heapFields, heapSeqs, boards, last>>
coordVars == <<wstate, terminated, chan, resolved, results, coord, posted, caller>>
notBoardVars == <<coordVars, run>>
notCoordVars == <<boardVars, run>>
notRunVars == <<boardVars, coordVars>>
vars == <<boardVars, coordVars, run>>

NULL == [null |-> TRUE]

\* ------------------------------------------------------------------------
\* Bounds of the exploration
\* ------------------------------------------------------------------------
\* the longest move sequence a board is driven to
MaxMoves == 2

\* ------------------------------------------------------------------------
\* board.js: Position, Field, MoveSequence
\* ------------------------------------------------------------------------
Position(row, col) == [row |-> row, col |-> col]

notEquals(p, other) == p.row # other.row \/ p.col # other.col

\* the one object every strategy compares by identity: the mark tells it from
\* a Position(15, 15) built anew
POSITION_NONE == [row |-> 15, col |-> 15, sentinel |-> TRUE]

Field(color, modifier) ==
  [color |-> color, modifier |-> modifier, onlyReachableFrom |-> POSITION_NONE]

isColor(c) == c \in {"r", "g", "b", "o", "d"}

isStaticArrow(f) == f.modifier \in {"L", "R", "U", "D"}

isRotatingArrow(f) == f.modifier \in {"w", "s", "a", "x"}

isClickable(f) == isStaticArrow(f) \/ isRotatingArrow(f) \/ f.modifier \in {"F", "B"}

\* an isCorrect that accepts any color letter as modifier
isCorrectLax(f) ==
  IF ~isColor(f.color) THEN TRUE
  ELSE f.modifier # "0"

isCorrect(f) ==
  IF ~isColor(f.color) THEN TRUE
  ELSE IF isColor(f.modifier) THEN f.color = f.modifier
  ELSE f.modifier # "0"

MoveSequence == [moves |-> <<>>, n |-> 0]

\* a MoveSequence.add that pushes the move and loses the count
addNoCount(ms, row, col) == [moves |-> Append(ms.moves, Position(row, col)), n |-> ms.n]

add(ms, row, col) == [moves |-> Append(ms.moves, Position(row, col)), n |-> ms.n + 1]

\* ------------------------------------------------------------------------
\* board.js: Board.click, on the grid of Field values of a board
\* (fields[r][c], rows and columns counted from 0)
\* ------------------------------------------------------------------------
inBounds(rows, cols, r, c) == 0 <= r /\ r < rows /\ 0 <= c /\ c < cols

\* a loop that overwrites the run and never sets `changed`
RECURSIVE fillLoopQuiet(_, _, _, _, _, _, _, _, _, _)
fillLoopQuiet(fields, rows, cols, dr, dc, r, c, fromColor, toColor, changed) ==
  IF inBounds(rows, cols, r, c) /\ fields[r][c].modifier = fromColor
  THEN fillLoopQuiet([fields EXCEPT ![r][c].modifier = toColor], rows, cols, dr, dc,
                     r + dr, c + dc, fromColor, toColor, changed)
  ELSE [fields |-> fields, changed |-> changed, threw |-> FALSE]

\* the while loop of fill: overwrite the run of fromColor cells
RECURSIVE fillLoop(_, _, _, _, _, _, _, _, _, _)
fillLoop(fields, rows, cols, dr, dc, r, c, fromColor, toColor, changed) ==
  IF inBounds(rows, cols, r, c) /\ fields[r][c].modifier = fromColor
  THEN fillLoop([fields EXCEPT ![r][c].modifier = toColor], rows, cols, dr, dc,
                r + dr, c + dc, fromColor, toColor, TRUE)
  ELSE [fields |-> fields, changed |-> changed, threw |-> FALSE]

\* a fill that writes the adjacent cell only
fillOne(fields, rows, cols, dr, dc, r0, c0, color) ==
  IF ~inBounds(rows, cols, r0 + dr, c0 + dc)
  THEN [fields |-> fields, changed |-> FALSE, threw |-> FALSE]
  ELSE IF fields[r0 + dr][c0 + dc].modifier = color
  THEN [fields |-> [fields EXCEPT ![r0 + dr][c0 + dc].modifier = "0"],
        changed |-> TRUE, threw |-> FALSE]
  ELSE IF fields[r0 + dr][c0 + dc].modifier = "0"
  THEN [fields |-> [fields EXCEPT ![r0 + dr][c0 + dc].modifier = color],
        changed |-> TRUE, threw |-> FALSE]
  ELSE [fields |-> fields, changed |-> FALSE, threw |-> FALSE]

\* fill(dr, dc, r, c, color) of Board.click
fill(fields, rows, cols, dr, dc, r0, c0, color) ==
  LET r == r0 + dr
      c == c0 + dc
      unchanged == [fields |-> fields, changed |-> FALSE, threw |-> FALSE]
  IN IF ~inBounds(rows, cols, r, c) THEN unchanged
     ELSE LET mod == fields[r][c].modifier
          IN IF mod = color
             THEN fillLoop(fields, rows, cols, dr, dc, r, c, color, "0", FALSE)
             ELSE IF mod = "0"
             THEN fillLoop(fields, rows, cols, dr, dc, r, c, "0", color, FALSE)
             ELSE unchanged

\* does flood(r, c, x, x) recurse without end?  It writes nothing new, so
\* a matching cell with a matching neighbour is entered again and again
\* until the call stack is exhausted (RangeError).
floodDiverges(fields, rows, cols, r, c, fromColor) ==
  /\ inBounds(rows, cols, r, c)
  /\ fields[r][c].modifier = fromColor
  /\ \E d \in {<<1, 0>>, <<-1, 0>>, <<0, 1>>, <<0, -1>>} :
        /\ inBounds(rows, cols, r + d[1], c + d[2])
        /\ fields[r + d[1]][c + d[2]].modifier = fromColor

\* the calls flood(r, c, fromColor, toColor) still to be made, the next one
\* first: a call on a matching cell overwrites it and makes the four calls
\* on its neighbours before the calls that were pending
RECURSIVE floodCalls(_, _, _, _, _, _)
floodCalls(fields, rows, cols, calls, fromColor, toColor) ==
  IF calls = <<>> THEN fields
  ELSE IF \/ ~inBounds(rows, cols, Head(calls)[1], Head(calls)[2])
          \/ fields[Head(calls)[1]][Head(calls)[2]].modifier # fromColor
  THEN floodCalls(fields, rows, cols, Tail(calls), fromColor, toColor)
  ELSE floodCalls([fields EXCEPT ![Head(calls)[1]][Head(calls)[2]].modifier = toColor],
                  rows, cols,
                  << <<Head(calls)[1] + 1, Head(calls)[2]>>,
                     <<Head(calls)[1] - 1, Head(calls)[2]>>,
                     <<Head(calls)[1], Head(calls)[2] + 1>>,
                     <<Head(calls)[1], Head(calls)[2] - 1>> >> \o Tail(calls),
                  fromColor, toColor)

flood(fields, rows, cols, r, c, fromColor, toColor) ==
  IF ~inBounds(rows, cols, r, c)
  THEN [fields |-> fields, changed |-> FALSE, threw |-> FALSE]
  ELSE IF fields[r][c].modifier # fromColor
  THEN [fields |-> fields, changed |-> FALSE, threw |-> FALSE]
  ELSE IF fromColor = toColor
  THEN [fields |-> fields, changed |-> TRUE,
        threw |-> floodDiverges(fields, rows, cols, r, c, fromColor)]
  ELSE [fields |-> floodCalls(fields, rows, cols, << <<r, c>> >>, fromColor, toColor),
        changed |-> TRUE, threw |-> FALSE]

\* the flood calls of case "F" on the cells of `around`, in the order of
\* the code; an exception thrown by one call skips the calls after it
RECURSIVE floodEach(_, _, _, _, _, _)
floodEach(acc, rows, cols, around, fromColor, toColor) ==
  IF around = <<>> \/ acc.threw THEN acc
  ELSE floodEach(
         [fields |-> flood(acc.fields, rows, cols, Head(around)[1], Head(around)[2],
                           fromColor, toColor).fields,
          changed |-> acc.changed \/
                      flood(acc.fields, rows, cols, Head(around)[1], Head(around)[2],
                            fromColor, toColor).changed,
          threw |-> flood(acc.fields, rows, cols, Head(around)[1], Head(around)[2],
                          fromColor, toColor).threw],
         rows, cols, Tail(around), fromColor, toColor)

floodAround(fields, rows, cols, row, col, fromColor, toColor) ==
  floodEach([fields |-> fields, changed |-> FALSE, threw |-> FALSE], rows, cols,
            << <<row + 1, col>>, <<row - 1, col>>, <<row, col + 1>>, <<row, col - 1>> >>,
            fromColor, toColor)

\* a bomb that paints the whole square, walls included
bombAll(fields, rows, cols, row, col, color) ==
  [fields |->
     [r \in 0..(rows - 1) |-> [c \in 0..(cols - 1) |->
        IF /\ row - 1 <= r /\ r <= row + 1
           /\ col - 1 <= c /\ c <= col + 1
        THEN [fields[r][c] EXCEPT !.modifier = color]
        ELSE fields[r][c]]],
   changed |-> TRUE, threw |-> FALSE]

\* a bomb that paints its row and its column only, not the diagonals
bombCross(fields, rows, cols, row, col, color) ==
  [fields |->
     [r \in 0..(rows - 1) |-> [c \in 0..(cols - 1) |->
        IF /\ row - 1 <= r /\ r <= row + 1
           /\ col - 1 <= c /\ c <= col + 1
           /\ (r = row \/ c = col)
           /\ fields[r][c].modifier # "X"
        THEN [fields[r][c] EXCEPT !.modifier = color]
        ELSE fields[r][c]]],
   changed |-> TRUE, threw |-> FALSE]

\* case "B": the 3x3 square, walls excepted
bomb(fields, rows, cols, row, col, color) ==
  [fields |->
     [r \in 0..(rows - 1) |-> [c \in 0..(cols - 1) |->
        IF /\ row - 1 <= r /\ r <= row + 1
           /\ col - 1 <= c /\ c <= col + 1
           /\ fields[r][c].modifier # "X"
        THEN [fields[r][c] EXCEPT !.modifier = color]
        ELSE fields[r][c]]],
   changed |-> TRUE, threw |-> FALSE]

\* a rotating arrow that fires and keeps its direction
rotateStuck(fields, rows, cols, dr, dc, row, col, color, next) ==
  [fields |-> fill(fields, rows, cols, dr, dc, row, col, color).fields,
   changed |-> TRUE, threw |-> FALSE]

\* cases "w", "s", "a", "x": fire, then rotate the clicked cell
rotate(fields, rows, cols, dr, dc, row, col, color, next) ==
  LET fired == fill(fields, rows, cols, dr, dc, row, col, color)
  IN [fields |-> [fired.fields EXCEPT ![row][col].modifier = next],
      changed |-> TRUE, threw |-> FALSE]

\* a switch with one more case: a click on a painted cell erases it
clickFieldsErasing(fields, rows, cols, row, col) ==
  LET f == fields[row][col]
      mod == f.modifier
  IN CASE mod = "U" -> fill(fields, rows, cols, -1, 0, row, col, f.color)
       [] mod = "D" -> fill(fields, rows, cols, 1, 0, row, col, f.color)
       [] mod = "L" -> fill(fields, rows, cols, 0, -1, row, col, f.color)
       [] mod = "R" -> fill(fields, rows, cols, 0, 1, row, col, f.color)
       [] mod = "F" ->
            LET paint == floodAround(fields, rows, cols, row, col, "0", f.color)
            IN IF paint.threw \/ paint.changed THEN paint
               ELSE floodAround(paint.fields, rows, cols, row, col, f.color, "0")
       [] mod = "B" -> bomb(fields, rows, cols, row, col, f.color)
       [] mod = "w" -> rotate(fields, rows, cols, -1, 0, row, col, f.color, "x")
       [] mod = "s" -> rotate(fields, rows, cols, 1, 0, row, col, f.color, "a")
       [] mod = "a" -> rotate(fields, rows, cols, 0, -1, row, col, f.color, "w")
       [] mod = "x" -> rotate(fields, rows, cols, 0, 1, row, col, f.color, "s")
       [] mod = f.color ->
            [fields |-> [fields EXCEPT ![row][col].modifier = "0"],
             changed |-> TRUE, threw |-> FALSE]
       [] OTHER -> [fields |-> fields, changed |-> FALSE, threw |-> FALSE]

\* the switch of Board.click: the new grid, the truthiness of the value
\* returned, and whether the call threw instead of returning
clickFields(fields, rows, cols, row, col) ==
  LET f == fields[row][col]
      mod == f.modifier
  IN CASE mod = "U" -> fill(fields, rows, cols, -1, 0, row, col, f.color)
       [] mod = "D" -> fill(fields, rows, cols, 1, 0, row, col, f.color)
       [] mod = "L" -> fill(fields, rows, cols, 0, -1, row, col, f.color)
       [] mod = "R" -> fill(fields, rows, cols, 0, 1, row, col, f.color)
       [] mod = "F" ->
            LET paint == floodAround(fields, rows, cols, row, col, "0", f.color)
            IN IF paint.threw \/ paint.changed THEN paint
               ELSE floodAround(paint.fields, rows, cols, row, col, f.color, "0")
       [] mod = "B" -> bomb(fields, rows, cols, row, col, f.color)
       [] mod = "w" -> rotate(fields, rows, cols, -1, 0, row, col, f.color, "x")
       [] mod = "s" -> rotate(fields, rows, cols, 1, 0, row, col, f.color, "a")
       [] mod = "a" -> rotate(fields, rows, cols, 0, -1, row, col, f.color, "w")
       [] mod = "x" -> rotate(fields, rows, cols, 0, 1, row, col, f.color, "s")
       [] OTHER -> [fields |-> fields, changed |-> FALSE, threw |-> FALSE]

\* ------------------------------------------------------------------------
\* Board objects on the heap
\* ------------------------------------------------------------------------
\* the grid of Field values a board's references point to
fieldsOf(hf, bd) ==
  [r \in 0..(bd.rows - 1) |-> [c \in 0..(bd.cols - 1) |-> hf[bd.fields[r][c]]]]

\* the references of a rows x cols grid allocated after `base` objects,
\* as `new Board(rows, cols)` allocates one Field for each cell
newFieldRefs(base, rows, cols) ==
  [r \in 0..(rows - 1) |-> [c \in 0..(cols - 1) |-> base + r * cols + c + 1]]

\* a click whose rule engine reads the move log: a board ignores every
\* second click made on it
clickRemembering(hf, hs, bd, row, col) ==
  LET ms == hs[bd.moveSequence]
      res == IF ms.n % 2 = 1
             THEN [fields |-> fieldsOf(hf, bd), changed |-> FALSE, threw |-> FALSE]
             ELSE clickFields(fieldsOf(hf, bd), bd.rows, bd.cols, row, col)
  IN [heapFields |->
        [i \in DOMAIN hf |->
           IF \E r \in 0..(bd.rows - 1), c \in 0..(bd.cols - 1) : bd.fields[r][c] = i
           THEN LET p == CHOOSE q \in (0..(bd.rows - 1)) \X (0..(bd.cols - 1)) :
                            bd.fields[q[1]][q[2]] = i
                IN [hf[i] EXCEPT !.modifier = res.fields[p[1]][p[2]].modifier]
           ELSE hf[i]],
      heapSeqs |-> [hs EXCEPT ![bd.moveSequence] = add(@, row, col)],
      changed |-> res.changed,
      threw |-> res.threw]

\* a click that takes the color off every cell whose modifier it changes
clickBleaching(hf, hs, bd, row, col) ==
  LET res == clickFields(fieldsOf(hf, bd), bd.rows, bd.cols, row, col)
      owner(i) == CHOOSE p \in (0..(bd.rows - 1)) \X (0..(bd.cols - 1)) :
                     bd.fields[p[1]][p[2]] = i
      mine(i) == \E r \in 0..(bd.rows - 1), c \in 0..(bd.cols - 1) :
                     bd.fields[r][c] = i
  IN [heapFields |->
        [i \in DOMAIN hf |->
           IF mine(i)
           THEN [hf[i] EXCEPT !.modifier = res.fields[owner(i)[1]][owner(i)[2]].modifier,
                              !.color = IF res.fields[owner(i)[1]][owner(i)[2]].modifier
                                           # hf[i].modifier
                                        THEN "0" ELSE @]
           ELSE hf[i]],
      heapSeqs |-> [hs EXCEPT ![bd.moveSequence] = add(@, row, col)],
      changed |-> res.changed,
      threw |-> res.threw]

\* Board.click on a board object: append the move, run the switch, and
\* store every cell's modifier through the board's Field references
click(hf, hs, bd, row, col) ==
  LET res == clickFields(fieldsOf(hf, bd), bd.rows, bd.cols, row, col)
      owner(i) == CHOOSE p \in (0..(bd.rows - 1)) \X (0..(bd.cols - 1)) :
                     bd.fields[p[1]][p[2]] = i
      mine(i) == \E r \in 0..(bd.rows - 1), c \in 0..(bd.cols - 1) :
                     bd.fields[r][c] = i
  IN [heapFields |->
        [i \in DOMAIN hf |->
           IF mine(i)
           THEN [hf[i] EXCEPT !.modifier = res.fields[owner(i)[1]][owner(i)[2]].modifier]
           ELSE hf[i]],
      heapSeqs |-> [hs EXCEPT ![bd.moveSequence] = add(@, row, col)],
      changed |-> res.changed,
      threw |-> res.threw]

\* Board.isSolved
isSolved(hf, bd) ==
  \A r \in 0..(bd.rows - 1), c \in 0..(bd.cols - 1) : isCorrect(hf[bd.fields[r][c]])

\* a copy that shares the Field objects of its source
copyShallow(hf, hs, bd) ==
  LET src == hs[bd.moveSequence]
  IN [heapFields |-> hf,
      heapSeqs |-> Append(hs, [moves |-> src.moves, n |-> src.n]),
      board |-> [rows |-> bd.rows, cols |-> bd.cols, fields |-> bd.fields,
                 moveSequence |-> Len(hs) + 1, hasBombs |-> bd.hasBombs]]

\* a copy with Field objects of its own that keeps its source's MoveSequence
copySharingMoves(hf, hs, bd) ==
  [heapFields |->
     hf \o [i \in 1..(bd.rows * bd.cols) |->
              hf[bd.fields[(i - 1) \div bd.cols][(i - 1) % bd.cols]]],
   heapSeqs |-> Append(hs, MoveSequence),
   board |-> [rows |-> bd.rows, cols |-> bd.cols,
              fields |-> newFieldRefs(Len(hf), bd.rows, bd.cols),
              moveSequence |-> bd.moveSequence, hasBombs |-> bd.hasBombs]]

\* Board.copy: a new Board with new Field objects and a new MoveSequence
\* whose moves array is a new array of new Positions
copy(hf, hs, bd) ==
  LET refs == newFieldRefs(Len(hf), bd.rows, bd.cols)
      fresh == [i \in 1..(bd.rows * bd.cols) |->
                  LET r == (i - 1) \div bd.cols
                      c == (i - 1) % bd.cols
                      fSrc == hf[bd.fields[r][c]]
                  IN [color |-> fSrc.color, modifier |-> fSrc.modifier,
                      onlyReachableFrom |-> fSrc.onlyReachableFrom]]
      src == hs[bd.moveSequence]
  IN [heapFields |-> hf \o fresh,
      heapSeqs |-> Append(hs, [moves |-> [i \in 1..Len(src.moves) |->
                                            Position(src.moves[i].row, src.moves[i].col)],
                               n |-> src.n]),
      board |-> [rows |-> bd.rows, cols |-> bd.cols, fields |-> refs,
                 moveSequence |-> Len(hs) + 1, hasBombs |-> bd.hasBombs]]

\* ------------------------------------------------------------------------
\* The levels explored
\* ------------------------------------------------------------------------
\* the shapes of the boards explored, rows x cols
Shapes == {<<2, 2>>, <<1, 3>>, <<3, 1>>}

\* cells that are never clicked into action: empty, painted, wall
PassiveKinds == {Field("r", "0"), Field("r", "r"), Field("0", "X")}

\* clickable cells of color r: every modifier of the switch
ActiveKinds == {Field("r", m) : m \in {"U", "D", "L", "R", "w", "s", "a", "x", "F", "B"}}

\* a level has at most this many clickable cells
ClickableCounts == {0, 1, 2}

Grids(rows, cols, kinds) == [0..(rows - 1) -> [0..(cols - 1) -> kinds]]

nClickable(rows, cols, g) ==
  Cardinality({p \in (0..(rows - 1)) \X (0..(cols - 1)) : isClickable(g[p[1]][p[2]])})

Levels(rows, cols) ==
  {g \in Grids(rows, cols, PassiveKinds \cup ActiveKinds) :
      nClickable(rows, cols, g) \in ClickableCounts}

\* the heap after `new Board(rows, cols)` filled cell by cell from grid g
\* (Board.fromStrings): Field objects 1..rows*cols, MoveSequence object 1
heapOfGrid(rows, cols, g) ==
  [i \in 1..(rows * cols) |-> g[(i - 1) \div cols][(i - 1) % cols]]

boardOfGrid(rows, cols) ==
  [rows |-> rows, cols |-> cols, fields |-> newFieldRefs(0, rows, cols),
   moveSequence |-> 1, hasBombs |-> FALSE]

\* the coordinator and its caller before anything was spawned
CoordIdle ==
  /\ wstate = <<>> /\ terminated = <<>> /\ chan = <<>> /\ resolved = <<>>
  /\ results = <<>> /\ coord = [phase |-> "idle"] /\ posted = <<>>
  /\ caller = [phase |-> "idle"]

NoOp == [op |-> "none", board |-> "none", row |-> 0, col |-> 0, mod |-> "",
         changed |-> FALSE, threw |-> FALSE]

\* ------------------------------------------------------------------------
\* Spec: one board b, clicked on any of its cells
\* ------------------------------------------------------------------------
Init ==
  \E shape \in Shapes :
    \E g \in Levels(shape[1], shape[2]) :
      /\ heapFields = heapOfGrid(shape[1], shape[2], g)
      /\ heapSeqs = <<MoveSequence>>
      /\ boards = [b |-> boardOfGrid(shape[1], shape[2]), c |-> NULL]
      /\ last = NoOp
      /\ CoordIdle
      /\ run = [phase |-> "idle"]

\* the clicks performed so far on the boards in scope
totalMoves ==
  heapSeqs[boards.b.moveSequence].n
    + (IF boards.c = NULL THEN 0 ELSE heapSeqs[boards.c.moveSequence].n)

\* name.click(row, col) for an in-bounds cell
ClickCell(name, row, col) ==
  /\ boards[name] # NULL
  /\ LET bd == boards[name]
     IN /\ inBounds(bd.rows, bd.cols, row, col)
        /\ LET res == click(heapFields, heapSeqs, bd, row, col)
           IN /\ heapFields' = res.heapFields
              /\ heapSeqs' = res.heapSeqs
              /\ last' = [op |-> "click", board |-> name, row |-> row, col |-> col,
                          mod |-> heapFields[bd.fields[row][col]].modifier,
                          changed |-> res.changed, threw |-> res.threw]
  /\ UNCHANGED <<boards, notBoardVars>>

\* a click while the boards in scope have made fewer than MaxMoves moves
Click(name, row, col) ==
  /\ totalMoves < MaxMoves
  /\ ClickCell(name, row, col)

ClickB == \E row \in 0..2, col \in 0..2 : Click("b", row, col)

ClickC == \E row \in 0..2, col \in 0..2 : Click("c", row, col)

\* c = b.copy()
CopyB ==
  /\ boards.c = NULL
  /\ LET res == copy(heapFields, heapSeqs, boards.b)
     IN /\ heapFields' = res.heapFields
        /\ heapSeqs' = res.heapSeqs
        /\ boards' = [boards EXCEPT !.c = res.board]
  /\ last' = [NoOp EXCEPT !.op = "copy", !.board = "b"]
  /\ UNCHANGED notBoardVars

Next == ClickB

Spec == Init /\ [][Next]_vars

\* C2 -- Wall immutability: no click on an in-bounds cell, whatever the
\* modifier clicked, changes a Field whose modifier is "X": it keeps the
\* modifier "X" and its color, step after step and so over every sequence.
WallImmutability ==
  [][\A i \in DOMAIN heapFields :
        heapFields[i].modifier = "X" => heapFields'[i] = heapFields[i]]_vars

\* a bomb was clicked as the second click, with a wall inside its square
WallNextToBomb ==
  /\ last.op = "click" /\ last.mod = "B"
  /\ heapSeqs[boards.b.moveSequence].n = 2
  /\ \E r \in 0..(boards.b.rows - 1), c \in 0..(boards.b.cols - 1) :
        /\ r - last.row \in {-1, 0, 1} /\ c - last.col \in {-1, 0, 1}
        /\ heapFields[boards.b.fields[r][c]].modifier = "X"

\* C3 -- Move-log integrity: every click(r,c) on an in-bounds cell makes
\* the move count one more than before and appends (r,c) as the last
\* entry, whatever it returned; n is the length of the move list in every
\* reachable board.
MoveLogIntegrity ==
  /\ [](\A i \in DOMAIN heapSeqs : heapSeqs[i].n = Len(heapSeqs[i].moves))
  /\ [][last'.op = "click" =>
          LET ms == boards[last'.board].moveSequence
          IN /\ heapSeqs'[ms].n = heapSeqs[ms].n + 1
             /\ heapSeqs'[ms].moves =
                  Append(heapSeqs[ms].moves, Position(last'.row, last'.col))
             /\ heapSeqs'[ms].moves[heapSeqs'[ms].n] = Position(last'.row, last'.col)]_vars

\* a second click that returned false was logged
NoOpClickLogged ==
  /\ last.op = "click" /\ ~last.changed
  /\ heapSeqs[boards.b.moveSequence].n = 2
  /\ heapSeqs[boards.b.moveSequence].moves[2] = Position(last.row, last.col)

\* ------------------------------------------------------------------------
\* SpecCopy: a board b and its copy c, both clicked
\* ------------------------------------------------------------------------
\* levels with at most one clickable cell among empty cells and walls
CopyLevels(rows, cols) ==
  {g \in Grids(rows, cols, {Field("r", "0"), Field("0", "X")} \cup ActiveKinds) :
      nClickable(rows, cols, g) <= 1}

InitCopy ==
  \E shape \in {<<2, 2>>, <<1, 3>>} :
    \E g \in CopyLevels(shape[1], shape[2]) :
      /\ heapFields = heapOfGrid(shape[1], shape[2], g)
      /\ heapSeqs = <<MoveSequence>>
      /\ boards = [b |-> boardOfGrid(shape[1], shape[2]), c |-> NULL]
      /\ last = NoOp
      /\ CoordIdle
      /\ run = [phase |-> "idle"]

NextCopy == ClickB \/ CopyB \/ ClickC

SpecCopy == InitCopy /\ [][NextCopy]_vars

\* C4 -- Determinism of rules: when b and c have equal dimensions and equal
\* (color, modifier) grids, click(r,c) on either gives equal grids and the
\* same changed? result for every in-bounds (r,c), whatever their move
\* sequences are and whatever was clicked before on the other board.
ClickDeterminism ==
  (/\ boards.c # NULL
   /\ fieldsOf(heapFields, boards.b) = fieldsOf(heapFields, boards.c)) =>
     \A row \in 0..(boards.b.rows - 1), col \in 0..(boards.b.cols - 1) :
        LET rb == click(heapFields, heapSeqs, boards.b, row, col)
            rc == click(heapFields, heapSeqs, boards.c, row, col)
        IN /\ fieldsOf(rb.heapFields, boards.b) = fieldsOf(rc.heapFields, boards.c)
           /\ rb.changed = rc.changed
           /\ rb.threw = rc.threw

\* b was painted and erased again while its copy c was left alone: equal
\* grids, different move sequences
SameGridOtherHistory ==
  /\ boards.c # NULL
  /\ fieldsOf(heapFields, boards.b) = fieldsOf(heapFields, boards.c)
  /\ heapSeqs[boards.b.moveSequence].n = 2
  /\ heapSeqs[boards.c.moveSequence].n = 0
  /\ last.op = "click" /\ last.changed
  /\ \E row \in 0..(boards.b.rows - 1), col \in 0..(boards.b.cols - 1) :
        click(heapFields, heapSeqs, boards.c, row, col).changed

\* C5 -- Copy isolation: c = b.copy() has the dimensions, cells and move
\* sequence of b and leaves b as it was; afterwards a click on c leaves
\* b's cells and move sequence unchanged and a click on b leaves c's.
CopyIsolation ==
  [][/\ last'.op = "copy" =>
          /\ boards'.c.rows = boards.b.rows
          /\ boards'.c.cols = boards.b.cols
          /\ boards'.c.hasBombs = boards.b.hasBombs
          /\ fieldsOf(heapFields', boards'.c) = fieldsOf(heapFields, boards.b)
          /\ heapSeqs'[boards'.c.moveSequence] = heapSeqs[boards.b.moveSequence]
          /\ fieldsOf(heapFields', boards'.b) = fieldsOf(heapFields, boards.b)
          /\ heapSeqs'[boards'.b.moveSequence] = heapSeqs[boards.b.moveSequence]
     /\ (last'.op = "click" /\ boards.c # NULL) =>
          LET other == IF last'.board = "b" THEN "c" ELSE "b"
          IN /\ boards'[other] = boards[other]
             /\ fieldsOf(heapFields', boards'[other]) = fieldsOf(heapFields, boards[other])
             /\ heapSeqs'[boards'[other].moveSequence] = heapSeqs[boards[other].moveSequence]
    ]_vars

\* after the copy both boards were clicked once and their grids differ
BothClickedAfterCopy ==
  /\ boards.c # NULL
  /\ heapSeqs[boards.b.moveSequence].n = 1
  /\ heapSeqs[boards.c.moveSequence].n = 1
  /\ heapSeqs[boards.b.moveSequence].moves # heapSeqs[boards.c.moveSequence].moves
  /\ fieldsOf(heapFields, boards.b) # fieldsOf(heapFields, boards.c)

\* ------------------------------------------------------------------------
\* Boards as values: what a strategy holds and what a worker posts
\* ------------------------------------------------------------------------
\* Board.fromStrings for a rectangular level: the grid, no move yet
boardOf(rows, cols, g) ==
  [rows |-> rows, cols |-> cols, fields |-> g,
   moveSequence |-> MoveSequence, hasBombs |-> FALSE]

\* Board.click: the board after the call, and what the call returned
clickBoard(b, row, col) ==
  LET res == clickFields(b.fields, b.rows, b.cols, row, col)
  IN [board |-> [b EXCEPT !.fields = res.fields,
                          !.moveSequence = add(b.moveSequence, row, col)],
      changed |-> res.changed,
      threw |-> res.threw]

\* Board.isSolved
isSolvedBoard(b) ==
  \A r \in 0..(b.rows - 1), c \in 0..(b.cols - 1) : isCorrect(b.fields[r][c])

\* the board after clicking the positions of ms in order
RECURSIVE playMoves(_, _)
playMoves(b, ms) ==
  IF ms = <<>> THEN b
  ELSE playMoves(clickBoard(b, Head(ms).row, Head(ms).col).board, Tail(ms))

\* multiSolver.js: boardToData, the plain object handed to a worker thread
boardToData(board) ==
  [rows |-> board.rows,
   cols |-> board.cols,
   fields |-> [r \in 0..(board.rows - 1) |-> [c \in 0..(board.cols - 1) |->
                 [color |-> board.fields[r][c].color,
                  modifier |-> board.fields[r][c].modifier,
                  onlyReachableFrom |->
                    [row |-> board.fields[r][c].onlyReachableFrom.row,
                     col |-> board.fields[r][c].onlyReachableFrom.col]]]],
   moves |-> [i \in 1..Len(board.moveSequence.moves) |->
                [row |-> board.moveSequence.moves[i].row,
                 col |-> board.moveSequence.moves[i].col]],
   hasBombs |-> board.hasBombs]

\* a rebuild that makes a new Position of every onlyReachableFrom
boardFromDataFresh(data) ==
  [rows |-> data.rows,
   cols |-> data.cols,
   fields |-> [r \in 0..(data.rows - 1) |-> [c \in 0..(data.cols - 1) |->
                 [color |-> data.fields[r][c].color,
                  modifier |-> data.fields[r][c].modifier,
                  onlyReachableFrom |->
                    Position(data.fields[r][c].onlyReachableFrom.row,
                             data.fields[r][c].onlyReachableFrom.col)]]],
   moveSequence |-> [moves |-> [i \in 1..Len(data.moves) |->
                                  Position(data.moves[i].row, data.moves[i].col)],
                     n |-> Len(data.moves)],
   hasBombs |-> data.hasBombs]

\* multiSolver.js: boardFromData
boardFromData(data) ==
  [rows |-> data.rows,
   cols |-> data.cols,
   fields |-> [r \in 0..(data.rows - 1) |-> [c \in 0..(data.cols - 1) |->
                 LET fData == data.fields[r][c]
                 IN [color |-> fData.color,
                     modifier |-> fData.modifier,
                     onlyReachableFrom |->
                       IF fData.onlyReachableFrom.row = 15 /\ fData.onlyReachableFrom.col = 15
                       THEN POSITION_NONE
                       ELSE Position(fData.onlyReachableFrom.row,
                                     fData.onlyReachableFrom.col)]]],
   moveSequence |-> [moves |-> [i \in 1..Len(data.moves) |->
                                  Position(data.moves[i].row, data.moves[i].col)],
                     n |-> Len(data.moves)],
   hasBombs |-> data.hasBombs]

\* ------------------------------------------------------------------------
\* multiSolver.js: the worker body and solveWithAllStrategiesParallel
\* ------------------------------------------------------------------------
\* the strategies spawned, in the order of the workers array
Solvers == <<"DFS", "BFS", "A*", "IDA">>

Workers == 1..Len(Solvers)

\* results.length at which every worker is terminated
K == 2

\* the end of fullySolved.slice(0, ...)
SliceEnd == 2

\* what the worker posts: the strategy's board (or null) with its solved
\* flag, or the message of the exception the try block caught
workerMessage(solverName, result, threw) ==
  IF threw
  THEN [result |-> NULL, moves |-> NULL, solverName |-> solverName,
        solved |-> FALSE, error |-> TRUE]
  ELSE [result |-> IF result = NULL THEN NULL ELSE boardToData(result),
        moves |-> IF result = NULL THEN NULL ELSE [n |-> result.moveSequence.n],
        solverName |-> solverName,
        solved |-> result # NULL /\ isSolvedBoard(result),
        error |-> FALSE]

MessageEvent(msg) == [type |-> "message", msg |-> msg]
ExitEvent == [type |-> "exit"]
ErrorEvent == [type |-> "error"]

\* a message handler that gives up on the other strategies when a worker
\* reports an error
onMessageAbort(res, term, msg) ==
  IF msg.solved /\ msg.result # NULL
  THEN [results |-> Append(res, boardFromData(msg.result)),
        terminated |-> IF Len(res) + 1 >= K THEN [w \in Workers |-> TRUE] ELSE term]
  ELSE IF msg.error
  THEN [results |-> res, terminated |-> [w \in Workers |-> TRUE]]
  ELSE [results |-> res, terminated |-> term]

\* a message handler that never cancels
onMessageNoCancel(res, term, msg) ==
  IF msg.solved /\ msg.result # NULL
  THEN [results |-> Append(res, boardFromData(msg.result)), terminated |-> term]
  ELSE [results |-> res, terminated |-> term]

\* a message handler that drops the solved results that come once K were
\* received
onMessageUpToK(res, term, msg) ==
  IF msg.solved /\ msg.result # NULL /\ Len(res) < K
  THEN [results |-> Append(res, boardFromData(msg.result)),
        terminated |-> IF Len(res) + 1 >= K THEN [w \in Workers |-> TRUE] ELSE term]
  ELSE [results |-> res, terminated |-> term]

\* worker.on("message"): the results array and the workers terminate()
\* was called on, after the handler ran
onMessage(res, term, msg) ==
  IF msg.solved /\ msg.result # NULL
  THEN [results |-> Append(res, boardFromData(msg.result)),
        terminated |-> IF Len(res) + 1 >= K THEN [w \in Workers |-> TRUE] ELSE term]
  ELSE [results |-> res, terminated |-> term]

\* results.filter((b) => b.isSolved())
RECURSIVE filterSolved(_)
filterSolved(bs) ==
  IF bs = <<>> THEN <<>>
  ELSE IF isSolvedBoard(Head(bs)) THEN <<Head(bs)>> \o filterSolved(Tail(bs))
  ELSE filterSolved(Tail(bs))

slice(bs, end) == SubSeq(bs, 1, IF Len(bs) < end THEN Len(bs) ELSE end)

\* a return that hands back every solved board of results
returnUnsliced(res) ==
  LET fullySolved == filterSolved(res)
  IN IF Len(fullySolved) > 0
     THEN [null |-> FALSE, boards |-> fullySolved]
     ELSE [null |-> TRUE, boards |-> <<>>]

\* the value solveWithAllStrategiesParallel resolves to: null, or the
\* first solved boards of results
returnValue(res) ==
  LET fullySolved == filterSolved(res)
  IN IF Len(fullySolved) > 0
     THEN [null |-> FALSE, boards |-> slice(fullySolved, SliceEnd)]
     ELSE [null |-> TRUE, boards |-> <<>>]

\* ------------------------------------------------------------------------
\* main.js (the variant that receives the list of solved boards)
\* ------------------------------------------------------------------------
Letters == <<"A", "B", "C", "D", "E", "F">>

\* a move as written in a solution string: <<letter, row + 1>>
moveString(m) == <<Letters[m.col + 1], m.row + 1>>

\* the solution string of a move list: its moves, comma separated
movesToString(moves) == [i \in 1..Len(moves) |-> moveString(moves[i])]

parseMove(move) ==
  [row |-> move[2] - 1,
   col |-> (CHOOSE i \in 1..Len(Letters) : Letters[i] = move[1]) - 1]

countMoves(solutionStr) == Len(solutionStr)

\* replaySolution inside tryExistingSolution: the solved board the
\* solution replays to, or null when a move changes nothing, throws, or
\* the final board is not solved
RECURSIVE replaySolution(_, _)
replaySolution(b, solutionStr) ==
  IF solutionStr = <<>> THEN b
  ELSE LET m == parseMove(Head(solutionStr))
       IN IF ~inBounds(b.rows, b.cols, m.row, m.col) THEN NULL
          ELSE LET res == clickBoard(b, m.row, m.col)
               IN IF res.threw \/ ~res.changed THEN NULL
                  ELSE replaySolution(res.board, Tail(solutionStr))

tryExistingSolution(board, solutionStr) ==
  LET solved == replaySolution(board, solutionStr)
  IN IF solved # NULL /\ isSolvedBoard(solved) THEN solved ELSE NULL

\* solvedBoards.reduce((a, b) => a.moveSequence.n < b.moveSequence.n ? a : b)
RECURSIVE reduceFewest(_, _)
reduceFewest(a, bs) ==
  IF bs = <<>> THEN a
  ELSE reduceFewest(IF a.moveSequence.n < Head(bs).moveSequence.n THEN a ELSE Head(bs),
                    Tail(bs))

\* a choice that takes the best board returned whenever there is one
mainChooseNewest(ret, existingBoard, existingMoves, existingSolution) ==
  IF ~ret.null /\ Len(ret.boards) > 0 /\ Len(filterSolved(ret.boards)) > 0
  THEN [chosenBoard |-> reduceFewest(Head(filterSolved(ret.boards)),
                                     Tail(filterSolved(ret.boards))),
        solutionStr |-> movesToString(
                          reduceFewest(Head(filterSolved(ret.boards)),
                                       Tail(filterSolved(ret.boards))).moveSequence.moves),
        updatedXml |-> TRUE]
  ELSE IF existingBoard # NULL
  THEN [chosenBoard |-> existingBoard, solutionStr |-> existingSolution,
        updatedXml |-> FALSE]
  ELSE [chosenBoard |-> NULL, solutionStr |-> <<>>, updatedXml |-> FALSE]

\* the choice main makes between the boards returned and the existing
\* solution
mainChoose(ret, existingBoard, existingMoves, existingSolution) ==
  LET keep == [chosenBoard |-> existingBoard, solutionStr |-> existingSolution,
               updatedXml |-> FALSE]
      fullySolved == filterSolved(ret.boards)
  IN IF ~ret.null /\ Len(ret.boards) > 0 /\ Len(fullySolved) > 0
     THEN LET best == reduceFewest(Head(fullySolved), Tail(fullySolved))
          IN IF existingBoard # NULL /\ best.moveSequence.n >= existingMoves
             THEN keep
             ELSE [chosenBoard |-> best,
                   solutionStr |-> movesToString(best.moveSequence.moves),
                   updatedXml |-> TRUE]
     ELSE IF existingBoard # NULL THEN keep
     ELSE [chosenBoard |-> NULL, solutionStr |-> <<>>, updatedXml |-> FALSE]

\* ------------------------------------------------------------------------
\* SpecCoord: one level handed to the coordinator by main
\* ------------------------------------------------------------------------
\* const result = solverFunc(board, debug) returns (or throws inside the
\* try block) in worker w: the worker posts its message and calls
\* process.exit(0).  run.outcomes[w] is what solverMap[solverName] ends
\* with on boardFromData(boardData), which the worker data settles.  A
\* worker that terminate() was called on may still get this far.
WorkerFinish(w) ==
  /\ wstate[w] = "running"
  /\ \E o \in run.outcomes[w] :
       LET msg == workerMessage(Solvers[w], o.result, o.threw)
       IN /\ chan' = [chan EXCEPT ![w] = <<MessageEvent(msg), ExitEvent>>]
          /\ posted' = [posted EXCEPT ![w] = msg]
  /\ wstate' = [wstate EXCEPT ![w] = "exited"]
  /\ UNCHANGED <<terminated, resolved, results, coord, caller, notCoordVars>>

\* a worker dies of an exception nothing caught: 'error', then 'exit'
WorkerCrash(w) ==
  /\ wstate[w] = "running"
  /\ wstate' = [wstate EXCEPT ![w] = "crashed"]
  /\ chan' = [chan EXCEPT ![w] = <<ErrorEvent, ExitEvent>>]
  /\ UNCHANGED <<terminated, resolved, results, coord, posted, caller, notCoordVars>>

\* a worker that terminate() was called on is stopped in mid-search
WorkerStop(w) ==
  /\ wstate[w] = "running"
  /\ terminated[w]
  /\ wstate' = [wstate EXCEPT ![w] = "killed"]
  /\ chan' = [chan EXCEPT ![w] = <<ExitEvent>>]
  /\ UNCHANGED <<terminated, resolved, results, coord, posted, caller, notCoordVars>>

\* worker.on("message")
OnMessage(w) ==
  /\ chan[w] # <<>>
  /\ Head(chan[w]).type = "message"
  /\ chan' = [chan EXCEPT ![w] = Tail(@)]
  /\ results' = onMessage(results, terminated, Head(chan[w]).msg).results
  /\ terminated' = onMessage(results, terminated, Head(chan[w]).msg).terminated
  /\ UNCHANGED <<wstate, resolved, coord, posted, caller, notCoordVars>>

\* worker.on("exit"): resolve()
OnExit(w) ==
  /\ chan[w] # <<>>
  /\ Head(chan[w]).type = "exit"
  /\ chan' = [chan EXCEPT ![w] = Tail(@)]
  /\ resolved' = [resolved EXCEPT ![w] = TRUE]
  /\ UNCHANGED <<wstate, terminated, results, coord, posted, caller, notCoordVars>>

\* worker.on("error"): log, resolve()
OnError(w) ==
  /\ chan[w] # <<>>
  /\ Head(chan[w]).type = "error"
  /\ chan' = [chan EXCEPT ![w] = Tail(@)]
  /\ resolved' = [resolved EXCEPT ![w] = TRUE]
  /\ UNCHANGED <<wstate, terminated, results, coord, posted, caller, notCoordVars>>

\* await Promise.all(...) is over: filter, slice, return
Return ==
  /\ coord.phase = "awaiting"
  /\ \A w \in Workers : resolved[w]
  /\ coord' = [phase |-> "returned", value |-> returnValue(results)]
  /\ UNCHANGED <<wstate, terminated, chan, resolved, results, posted, caller, notCoordVars>>

\* main goes on with what the coordinator returned
MainChoose ==
  /\ coord.phase = "returned"
  /\ caller.phase = "awaiting"
  /\ LET choice == mainChoose(coord.value, caller.existingBoard, caller.existingMoves,
                              caller.existingSolution)
     IN caller' = [phase |-> "chosen",
                   existingSolution |-> caller.existingSolution,
                   existingBoard |-> caller.existingBoard,
                   existingMoves |-> caller.existingMoves,
                   chosenBoard |-> choice.chosenBoard,
                   solutionStr |-> choice.solutionStr,
                   updatedXml |-> choice.updatedXml]
  /\ UNCHANGED <<wstate, terminated, chan, resolved, results, coord, posted, notCoordVars>>

WorkerStep == \E w \in Workers : WorkerFinish(w) \/ WorkerCrash(w)

Cancelled == \E w \in Workers : WorkerStop(w)

EventLoop == \E w \in Workers : OnMessage(w) \/ OnExit(w) \/ OnError(w)

NextCoord == WorkerStep \/ Cancelled \/ EventLoop \/ Return \/ MainChoose

\* the workers that posted a solved board, and the boards they posted
solvedPosters == {w \in Workers : posted[w] # NULL /\ posted[w].solved}

failedWorkers ==
  {w \in Workers : wstate[w] = "crashed" \/ (posted[w] # NULL /\ posted[w].error)}

\* C6 -- Coordinator minimality: whatever the interleaving of messages and
\* exits, the board main finally selects has no more moves than any solved
\* board a worker posted to the coordinator.
CoordinatorMinimality ==
  caller.phase = "chosen" =>
    \A w \in solvedPosters :
       /\ caller.chosenBoard # NULL
       /\ caller.chosenBoard.moveSequence.n <= Len(posted[w].result.moves)

\* C7 -- Coordinator cancellation (safety): once K solved results were
\* received no further result message is processed, so the results array
\* never holds more than K boards.
ResultsAtMostK == Len(results) <= K

\* C8 -- Coordinator cancellation (liveness): once K solved results were
\* received terminate() has been called on every spawned worker, every
\* worker eventually stops running, and the coordinator eventually
\* returns, although no strategy is ever made to finish its search.
CancellationLive ==
  /\ [](Len(results) >= K => \A w \in Workers : terminated[w])
  /\ (Len(results) >= K) ~> (\A w \in Workers : wstate[w] # "running")
  /\ (Len(results) >= K) ~> (coord.phase = "returned")

\* the coordinator returned after K results, one worker having been
\* stopped in mid-search
ReturnedAfterKill ==
  /\ coord.phase = "returned"
  /\ Len(results) >= K
  /\ \E w \in Workers : wstate[w] = "killed"

FailureIsolation ==
  /\ [][\A w \in Workers :
          (/\ chan[w] # <<>>
           /\ chan'[w] = Tail(chan[w])
           /\ \/ Head(chan[w]).type = "error"
              \/ (Head(chan[w]).type = "message" /\ Head(chan[w]).msg.error))
          => /\ results' = results
             /\ terminated' = terminated
             /\ wstate' = wstate]_vars
  /\ []((coord.phase = "returned" /\ failedWorkers # {}) =>
          /\ failedWorkers \cap solvedPosters = {}
          /\ Len(coord.value.boards) =
               (IF Cardinality(solvedPosters) < SliceEnd
                THEN Cardinality(solvedPosters) ELSE SliceEnd)
          /\ \A i \in 1..Len(coord.value.boards) :
                \E w \in solvedPosters \ failedWorkers :
                   coord.value.boards[i] = boardFromData(posted[w].result)
          /\ Cardinality(solvedPosters) <= SliceEnd =>
                \A w \in solvedPosters :
                   \E i \in 1..Len(coord.value.boards) :
                      coord.value.boards[i] = boardFromData(posted[w].result))

\* the coordinator returned boards although one worker crashed and
\* another threw
ReturnedDespiteFailures ==
  /\ coord.phase = "returned"
  /\ ~coord.value.null
  /\ \E w \in Workers : wstate[w] = "crashed"
  /\ \E w \in Workers : posted[w] # NULL /\ posted[w].error

\* ------------------------------------------------------------------------
\* The strategies, on boards as values
\* ------------------------------------------------------------------------
\* Board.hash: the JSON text of the grid of [color, modifier] pairs
hash(board) ==
  [r \in 0..(board.rows - 1) |-> [c \in 0..(board.cols - 1) |->
     <<board.fields[r][c].color, board.fields[r][c].modifier>>]]

\* a key that leaves the move count out
hashAnyDepth(board) == <<hash(board), 0>>

\* hash + "|" + moveSequence.n, the key of the seen sets
hashAt(board) == <<hash(board), board.moveSequence.n>>

\* a test that lets every clickable cell through
movableAnywhere(board, r, c) == isClickable(board.fields[r][c])

\* the two tests every strategy makes on a cell before it clicks it
movable(board, r, c) ==
  /\ isClickable(board.fields[r][c])
  /\ ~(/\ board.fields[r][c].onlyReachableFrom # POSITION_NONE
       /\ (\/ r # board.fields[r][c].onlyReachableFrom.row
           \/ c # board.fields[r][c].onlyReachableFrom.col))

\* the cells a strategy clicks, in the order of its two for loops
RECURSIVE movesFrom(_, _)
movesFrom(board, i) ==
  IF i >= board.rows * board.cols THEN <<>>
  ELSE (IF movable(board, i \div board.cols, i % board.cols)
        THEN <<Position(i \div board.cols, i % board.cols)>> ELSE <<>>)
       \o movesFrom(board, i + 1)

getMoves(board) == movesFrom(board, 0)

\* board.copy() followed by newBoard.click(r, c)
tryMove(board, m) == clickBoard(board, m.row, m.col)

\* heuristic of branchBoundSolver and idaStarSolver: the incorrect cells
heuristic(board) ==
  Cardinality({p \in (0..(board.rows - 1)) \X (0..(board.cols - 1)) :
                 ~isCorrect(board.fields[p[1]][p[2]])})

\* what a strategy call comes to: a board or null, or an exception
Returned(result) == [result |-> result, threw |-> FALSE]
Thrown == [result |-> NULL, threw |-> TRUE]

\* ---- dfsSolver ----------------------------------------------------------
RECURSIVE dfsLax(_, _, _), dfsFirstFound(_, _, _), dfs(_, _, _),
          dfsMoves(_, _, _, _), dfsTry(_, _, _)

\* a dfs that takes a board at the step limit for a solution
dfsLax(st, board, maxSteps) ==
  IF st.threw \/ board.moveSequence.n > maxSteps THEN st
  ELSE IF isSolvedBoard(board) \/ board.moveSequence.n = maxSteps
  THEN IF st.bestSolution = NULL \/ board.moveSequence.n < st.bestSolution.moveSequence.n
       THEN [st EXCEPT !.bestSolution = board]
       ELSE st
  ELSE IF hash(board) \in st.visited THEN st
  ELSE dfsMoves([st EXCEPT !.visited = @ \cup {hash(board)}], board,
                getMoves(board), maxSteps)

\* a dfs that keeps the first solved board it comes to
dfsFirstFound(st, board, maxSteps) ==
  IF st.threw \/ board.moveSequence.n > maxSteps THEN st
  ELSE IF isSolvedBoard(board)
  THEN IF st.bestSolution = NULL THEN [st EXCEPT !.bestSolution = board] ELSE st
  ELSE IF hash(board) \in st.visited THEN st
  ELSE dfsMoves([st EXCEPT !.visited = @ \cup {hash(board)}], board,
                getMoves(board), maxSteps)

\* dfs(board) with bestSolution and visited passed along
dfs(st, board, maxSteps) ==
  IF st.threw \/ board.moveSequence.n > maxSteps THEN st
  ELSE IF isSolvedBoard(board)
  THEN IF st.bestSolution = NULL \/ board.moveSequence.n < st.bestSolution.moveSequence.n
       THEN [st EXCEPT !.bestSolution = board]
       ELSE st
  ELSE IF hash(board) \in st.visited THEN st
  ELSE dfsMoves([st EXCEPT !.visited = @ \cup {hash(board)}], board,
                getMoves(board), maxSteps)

\* the two for loops of dfs, over the cells left to try
dfsMoves(st, board, moves, maxSteps) ==
  IF moves = <<>> \/ st.threw THEN st
  ELSE dfsMoves(dfsTry(st, tryMove(board, Head(moves)), maxSteps),
                board, Tail(moves), maxSteps)

\* the loop body once newBoard.click(r, c) is over
dfsTry(st, clicked, maxSteps) ==
  IF clicked.threw THEN [st EXCEPT !.threw = TRUE]
  ELSE IF ~clicked.changed THEN st
  ELSE dfs(st, clicked.board, maxSteps)

\* return bestSolution, unless a click threw
dfsReturn(st) == IF st.threw THEN Thrown ELSE Returned(st.bestSolution)

dfsSolver(initialBoard, maxSteps) ==
  dfsReturn(dfs([bestSolution |-> NULL, visited |-> {}, threw |-> FALSE],
                initialBoard, maxSteps))

\* ---- bfsSolver ----------------------------------------------------------
RECURSIVE bfsLoop(_, _, _), bfsMoves(_, _, _, _)

\* the loop body once newBoard.click(r, c) is over: dedup, push, cap
bfsPush(st, clicked, maxQueueSize) ==
  IF clicked.threw THEN [st EXCEPT !.threw = TRUE]
  ELSE IF ~clicked.changed THEN st
  ELSE IF hashAt(clicked.board) \in st.visited THEN st
  ELSE [st EXCEPT !.visited = @ \cup {hashAt(clicked.board)},
                  !.queue = IF Len(@) + 1 > maxQueueSize
                            THEN Tail(Append(@, clicked.board))
                            ELSE Append(@, clicked.board)]

\* the two for loops of bfsSolver, over the cells left to try
bfsMoves(st, board, moves, maxQueueSize) ==
  IF moves = <<>> \/ st.threw THEN st
  ELSE bfsMoves(bfsPush(st, tryMove(board, Head(moves)), maxQueueSize),
                board, Tail(moves), maxQueueSize)

\* a loop that expands the boards of maxSteps moves as well
RECURSIVE bfsLoopOneDeeper(_, _, _)
bfsLoopOneDeeper(st, maxSteps, maxQueueSize) ==
  IF st.threw THEN Thrown
  ELSE IF ~(st.head < Len(st.queue)) THEN Returned(NULL)
  ELSE IF isSolvedBoard(st.queue[st.head + 1]) THEN Returned(st.queue[st.head + 1])
  ELSE IF st.queue[st.head + 1].moveSequence.n >= maxSteps + 1
  THEN bfsLoopOneDeeper([st EXCEPT !.head = @ + 1], maxSteps, maxQueueSize)
  ELSE bfsLoopOneDeeper(bfsMoves([st EXCEPT !.head = @ + 1], st.queue[st.head + 1],
                                 getMoves(st.queue[st.head + 1]), maxQueueSize),
                        maxSteps, maxQueueSize)

\* while (head < queue.length): st holds queue, head, visited
bfsLoop(st, maxSteps, maxQueueSize) ==
  IF st.threw THEN Thrown
  ELSE IF ~(st.head < Len(st.queue)) THEN Returned(NULL)
  ELSE IF isSolvedBoard(st.queue[st.head + 1]) THEN Returned(st.queue[st.head + 1])
  ELSE IF st.queue[st.head + 1].moveSequence.n >= maxSteps
  THEN bfsLoop([st EXCEPT !.head = @ + 1], maxSteps, maxQueueSize)
  ELSE bfsLoop(bfsMoves([st EXCEPT !.head = @ + 1], st.queue[st.head + 1],
                        getMoves(st.queue[st.head + 1]), maxQueueSize),
               maxSteps, maxQueueSize)

bfsSolver(initialBoard, maxSteps, maxQueueSize) ==
  bfsLoop([queue |-> <<initialBoard>>, head |-> 0,
           visited |-> {<<hash(initialBoard), 0>>}, threw |-> FALSE],
          maxSteps, maxQueueSize)

\* ---- idaStarSolver ------------------------------------------------------
\* what search returns: -1 (found), -2 (timeout), Infinity, or an f value;
\* st holds bestSolution and pathSet
Found == [kind |-> "found", f |-> 0]
Infinity == [kind |-> "Infinity", f |-> 0]
Bound(f) == [kind |-> "f", f |-> f]

\* t < min
lessThan(t, min) ==
  IF t.kind = "Infinity" THEN FALSE
  ELSE IF min.kind = "Infinity" THEN TRUE
  ELSE t.f < min.f

RECURSIVE search(_, _, _, _), searchMoves(_, _, _, _, _, _), searchTry(_, _, _, _, _)
RECURSIVE searchNext(_, _, _, _, _, _)

\* a search that answers bound + 1 for every node over the bound
searchDeepeningByOne(st, board, g, bound) ==
  IF g + heuristic(board) > bound THEN [st EXCEPT !.t = Bound(bound + 1)]
  ELSE IF isSolvedBoard(board) THEN [st EXCEPT !.bestSolution = board, !.t = Found]
  ELSE IF hash(board) \in st.pathSet THEN [st EXCEPT !.t = Infinity]
  ELSE searchMoves([st EXCEPT !.pathSet = @ \cup {hash(board)}],
                   board, getMoves(board), g, bound, Infinity)

\* a search that goes on below a board whose grid state is on the path
searchRevisiting(st, board, g, bound) ==
  IF g + heuristic(board) > bound THEN [st EXCEPT !.t = Bound(g + heuristic(board))]
  ELSE IF isSolvedBoard(board) THEN [st EXCEPT !.bestSolution = board, !.t = Found]
  ELSE searchMoves([st EXCEPT !.pathSet = @ \cup {hash(board)},
                              !.expanded = Append(@, [board |-> board,
                                                      pathSet |-> st.pathSet
                                                                  \cup {hash(board)}])],
                   board, getMoves(board), g, bound, Infinity)

\* search(board, g, bound, pathSet): the value returned, and the state
\* left; expanded collects the boards whose cells are tried, each with
\* pathSet as it is once the board's hash is added
search(st, board, g, bound) ==
  IF g + heuristic(board) > bound THEN [st EXCEPT !.t = Bound(g + heuristic(board))]
  ELSE IF isSolvedBoard(board) THEN [st EXCEPT !.bestSolution = board, !.t = Found]
  ELSE IF hash(board) \in st.pathSet THEN [st EXCEPT !.t = Infinity]
  ELSE searchMoves([st EXCEPT !.pathSet = @ \cup {hash(board)},
                              !.expanded = Append(@, [board |-> board,
                                                      pathSet |-> st.pathSet
                                                                  \cup {hash(board)}])],
                   board, getMoves(board), g, bound, Infinity)

\* the two for loops of a search that leaves pathSet as it is at the end
searchMovesKeeping(st, board, moves, g, bound, min) ==
  IF st.threw \/ st.t = Found THEN st
  ELSE IF moves = <<>> THEN [st EXCEPT !.t = min]
  ELSE searchNext(searchTry(st, tryMove(board, Head(moves)), g, bound, min),
                  board, Tail(moves), g, bound, min)

\* the two for loops of search, over the cells left to try
searchMoves(st, board, moves, g, bound, min) ==
  IF st.threw \/ st.t = Found THEN st
  ELSE IF moves = <<>>
  THEN [st EXCEPT !.pathSet = @ \ {hash(board)}, !.t = min]
  ELSE searchNext(searchTry(st, tryMove(board, Head(moves)), g, bound, min),
                  board, Tail(moves), g, bound, min)

\* if (t < min) min = t, and on with the loop
searchNext(st, board, moves, g, bound, min) ==
  searchMoves(st, board, moves, g, bound, IF lessThan(st.t, min) THEN st.t ELSE min)

\* the loop body once newBoard.click(r, c) is over; t stays min when the
\* click is skipped
searchTry(st, clicked, g, bound, min) ==
  IF clicked.threw THEN [st EXCEPT !.threw = TRUE]
  ELSE IF ~clicked.changed THEN [st EXCEPT !.t = min]
  ELSE search(st, clicked.board, g + 1, bound)

\* one call search(initialBoard, 0, threshold)
idaIterate(initialBoard, threshold) ==
  search([bestSolution |-> NULL, pathSet |-> {}, threw |-> FALSE, t |-> Infinity,
          expanded |-> <<>>],
         initialBoard, 0, threshold)

\* while (threshold <= maxSteps), with no timeout
RECURSIVE idaLoop(_, _, _), idaNext(_, _, _)
idaLoop(initialBoard, maxSteps, threshold) ==
  IF ~(threshold <= maxSteps) THEN Returned(NULL)
  ELSE idaNext(idaIterate(initialBoard, threshold), initialBoard, maxSteps)

\* the loop body once search returned
idaNext(st, initialBoard, maxSteps) ==
  IF st.threw THEN Thrown
  ELSE IF st.t = Found THEN Returned(st.bestSolution)
  ELSE IF st.t = Infinity THEN Returned(NULL)
  ELSE idaLoop(initialBoard, maxSteps, st.t.f)

\* idaStarSolver: timedOut says whether Date.now() passed the timeout
\* during a call of search
idaStarSolver(initialBoard, maxSteps, timedOut) ==
  IF heuristic(initialBoard) = 0 THEN Returned(initialBoard)
  ELSE IF timedOut /\ heuristic(initialBoard) <= maxSteps THEN Returned(NULL)
  ELSE idaLoop(initialBoard, maxSteps, heuristic(initialBoard))

\* ---- gbfsSolver, branchBoundSolver, enhancedBranchBoundSolver -----------
\* whether a Field object carries the property: one it does not carry
\* reads as undefined
has(f, name) == name \in DOMAIN f

abs(x) == IF x < 0 THEN -x ELSE x

\* heuristic of gbfsSolver: Manhattan distance to the target cell plus
\* color mismatches, over the incorrect cells from cell i on
RECURSIVE gbfsHeuristicFrom(_, _)
gbfsHeuristicFrom(board, i) ==
  IF i >= board.rows * board.cols THEN 0
  ELSE (IF ~isCorrect(board.fields[i \div board.cols][i % board.cols])
        THEN abs((i \div board.cols)
                 - (IF has(board.fields[i \div board.cols][i % board.cols], "correctRow")
                    THEN board.fields[i \div board.cols][i % board.cols].correctRow
                    ELSE i \div board.cols))
             + abs((i % board.cols)
                   - (IF has(board.fields[i \div board.cols][i % board.cols], "correctCol")
                      THEN board.fields[i \div board.cols][i % board.cols].correctCol
                      ELSE i % board.cols))
             + (IF ~has(board.fields[i \div board.cols][i % board.cols], "correctColor")
                THEN 1
                ELSE IF board.fields[i \div board.cols][i % board.cols].color
                          # board.fields[i \div board.cols][i % board.cols].correctColor
                THEN 1 ELSE 0)
        ELSE 0)
       + gbfsHeuristicFrom(board, i + 1)

gbfsHeuristic(board) == gbfsHeuristicFrom(board, 0)

\* a heuristic that gives every wrong cell the weight of a bomb
bombHeuristic(board) == 3 * heuristic(board)

\* heuristic of enhancedBranchBoundSolver: wrong cells, bombs weighted,
\* Manhattan distance to the target position
RECURSIVE enhancedHeuristicFrom(_, _)
enhancedHeuristicFrom(board, i) ==
  IF i >= board.rows * board.cols THEN 0
  ELSE (IF ~isCorrect(board.fields[i \div board.cols][i % board.cols])
        THEN 1
             + (IF has(board.fields[i \div board.cols][i % board.cols], "isBomb")
                THEN (IF board.fields[i \div board.cols][i % board.cols].isBomb
                      THEN 2 ELSE 0)
                ELSE 0)
             + (IF has(board.fields[i \div board.cols][i % board.cols], "targetPosition")
                THEN abs((i \div board.cols)
                         - board.fields[i \div board.cols][i % board.cols].targetPosition.row)
                     + abs((i % board.cols)
                           - board.fields[i \div board.cols][i % board.cols].targetPosition.col)
                ELSE 0)
        ELSE 0)
       + enhancedHeuristicFrom(board, i + 1)

enhancedHeuristic(board) == enhancedHeuristicFrom(board, 0)

\* the element a strategy adds to its priority queue
rootEntry(strategy, board) ==
  IF strategy = "GBFS" THEN [board |-> board, priority |-> gbfsHeuristic(board)]
  ELSE IF strategy = "A*"
  THEN [board |-> board, moves |-> 0, priority |-> heuristic(board)]
  ELSE [board |-> board, moves |-> 0, priority |-> enhancedHeuristic(board)]

entry(strategy, newBoard) ==
  IF strategy = "GBFS" THEN [board |-> newBoard, priority |-> gbfsHeuristic(newBoard)]
  ELSE IF strategy = "A*"
  THEN [board |-> newBoard, moves |-> newBoard.moveSequence.n,
        priority |-> newBoard.moveSequence.n + heuristic(newBoard)]
  ELSE [board |-> newBoard, moves |-> newBoard.moveSequence.n,
        priority |-> newBoard.moveSequence.n + enhancedHeuristic(newBoard)]

\* FastPriorityQueue with the comparator a.priority < b.priority: the
\* elements are kept in a sequence; poll() removes an element that no
\* other element precedes, and which one among equals is left open
pollable(pq) ==
  {i \in 1..Len(pq) : \A j \in 1..Len(pq) : ~(pq[j].priority < pq[i].priority)}

removeAt(seq, i) == SubSeq(seq, 1, i - 1) \o SubSeq(seq, i + 1, Len(seq))

\* the loop body once newBoard.click(r, c) is over: dedup, add, cap; the
\* states the queue may be left in
pqPush(st, clicked, strategy, maxQueueSize) ==
  IF clicked.threw THEN {[st EXCEPT !.threw = TRUE]}
  ELSE IF ~clicked.changed THEN {st}
  ELSE IF hashAt(clicked.board) \in st.seen THEN {st}
  ELSE IF Len(st.pq) + 1 > maxQueueSize
  THEN {[st EXCEPT !.seen = @ \cup {hashAt(clicked.board)},
                   !.pq = removeAt(Append(st.pq, entry(strategy, clicked.board)), i)] :
          i \in pollable(Append(st.pq, entry(strategy, clicked.board)))}
  ELSE {[st EXCEPT !.seen = @ \cup {hashAt(clicked.board)},
                   !.pq = Append(@, entry(strategy, clicked.board))]}

\* the two for loops of a queue strategy, over the cells left to try
RECURSIVE pqMoves(_, _, _, _, _)
pqMoves(st, board, moves, strategy, maxQueueSize) ==
  IF moves = <<>> \/ st.threw THEN {st}
  ELSE UNION {pqMoves(st2, board, Tail(moves), strategy, maxQueueSize) :
                st2 \in pqPush(st, tryMove(board, Head(moves)), strategy, maxQueueSize)}

\* whether the strategy leaves the loop with the polled element, skips it,
\* or expands it: gbfsSolver tests isSolved before the step limit, the
\* two branch-and-bound solvers test the step limit first
polledCase(strategy, e, maxSteps) ==
  IF strategy = "GBFS"
  THEN (IF isSolvedBoard(e.board) THEN "return"
        ELSE IF e.board.moveSequence.n >= maxSteps THEN "continue" ELSE "expand")
  ELSE (IF e.moves >= maxSteps THEN "continue"
        ELSE IF isSolvedBoard(e.board) THEN "return" ELSE "expand")

\* ---- mctsSolver ---------------------------------------------------------
\* new Node(board, parent, move); the tree is the sequence of its nodes,
\* a node's index is its reference, the root is node 1
Node(board, parent, move) ==
  [board |-> board, parent |-> parent, move |-> move, children |-> <<>>,
   visits |-> 0, untriedMoves |-> getMoves(board)]

\* select(node): the nodes the descent may stop at; ucb1 compares floating
\* point values, so which child it prefers is left open
RECURSIVE select(_, _)
select(tree, node) ==
  IF Len(tree[node].untriedMoves) = 0 /\ Len(tree[node].children) > 0
  THEN UNION {select(tree, tree[node].children[k]) : k \in 1..Len(tree[node].children)}
  ELSE {node}

\* expand(node): the tree afterwards and the node returned
expand(tree, node) ==
  IF Len(tree[node].untriedMoves) = 0
  THEN [tree |-> tree, node |-> node, threw |-> FALSE]
  ELSE LET move == tree[node].untriedMoves[Len(tree[node].untriedMoves)]
           popped == [tree EXCEPT ![node].untriedMoves = SubSeq(@, 1, Len(@) - 1)]
           clicked == tryMove(tree[node].board, move)
       IN IF clicked.threw THEN [tree |-> popped, node |-> node, threw |-> TRUE]
          ELSE IF ~clicked.changed THEN [tree |-> popped, node |-> node, threw |-> FALSE]
          ELSE [tree |-> Append([popped EXCEPT ![node].children = Append(@, Len(tree) + 1)],
                                Node(clicked.board, node, move)),
                node |-> Len(tree) + 1,
                threw |-> FALSE]

\* simulate(board): the boards the random rollout may leave in rolloutBoard
RECURSIVE simulate(_, _, _), simulateClick(_, _, _)
simulate(board, depth, maxSteps) ==
  IF ~(depth < maxSteps) THEN {[board |-> board, threw |-> FALSE]}
  ELSE IF isSolvedBoard(board) THEN {[board |-> board, threw |-> FALSE]}
  ELSE IF Len(getMoves(board)) = 0 THEN {[board |-> board, threw |-> FALSE]}
  ELSE UNION {simulateClick(tryMove(board, getMoves(board)[k]), depth, maxSteps) :
                k \in 1..Len(getMoves(board))}

simulateClick(clicked, depth, maxSteps) ==
  IF clicked.threw THEN {[board |-> clicked.board, threw |-> TRUE]}
  ELSE IF ~clicked.changed THEN {[board |-> clicked.board, threw |-> FALSE]}
  ELSE simulate(clicked.board, depth + 1, maxSteps)

\* backpropagate(node, reward): the visit counts along the path to the
\* root (the rewards feed ucb1 only)
RECURSIVE backpropagate(_, _)
backpropagate(tree, node) ==
  IF node = 0 THEN tree
  ELSE backpropagate([tree EXCEPT ![node].visits = @ + 1], tree[node].parent)

\* a reduce that stays with the first child
reduceFirst(tree, a, children) == a

\* root.children.reduce((a, b) => (b.visits > a.visits ? b : a), root.children[0])
RECURSIVE reduceVisits(_, _, _)
reduceVisits(tree, a, children) ==
  IF children = <<>> THEN a
  ELSE reduceVisits(tree,
                    IF tree[Head(children)].visits > tree[a].visits
                    THEN Head(children) ELSE a,
                    Tail(children))

\* the value returned after the loop ended with no solved rollout
fallback(tree) ==
  IF Len(tree[1].children) = 0 THEN NULL
  ELSE tree[reduceVisits(tree, tree[1].children[1], tree[1].children)].board

\* ------------------------------------------------------------------------
\* SpecSolve: one strategy called on a level
\* ------------------------------------------------------------------------
\* the strategies run this many steps deep at most
MaxSteps == 2

\* the largest cap put on a strategy's queue
MaxQueueSize == 4

\* mctsSolver's timeout strikes after this many iterations at the latest
MaxIterations == 3

StepLimits == {1, MaxSteps}

QueueSizes == {1, MaxQueueSize}

\* the levels: one row of three cells, at most two of them clickable; a
\* flood cell of no color makes a click end in a RangeError
SolveLevels ==
  {boardOf(1, 3, g) :
     g \in {h \in Grids(1, 3, PassiveKinds \cup ActiveKinds \cup {Field("0", "F")}) :
              nClickable(1, 3, h) \in ClickableCounts}}

\* idaStarSolver is called with one step more as well, so that an
\* iteration's bound leaves room for a third click
IdaStepLimits == StepLimits \cup {MaxSteps + 1}

\* its levels have an arrow of color g too, which paints cells of color r
\* with the wrong color and erases them again
IdaLevels ==
  {boardOf(1, 3, g) :
     g \in {h \in Grids(1, 3, PassiveKinds \cup ActiveKinds
                                \cup {Field("0", "F"), Field("g", "R")}) :
              nClickable(1, 3, h) \in ClickableCounts}}

InitSolve ==
  /\ heapFields = <<>> /\ heapSeqs = <<>> /\ boards = [b |-> NULL, c |-> NULL]
  /\ last = NoOp
  /\ CoordIdle
  /\ \E initialBoard \in SolveLevels :
       run = [phase |-> "called", initialBoard |-> initialBoard]

\* the strategy returned or threw
return(strategy, maxSteps, outcome, isFallback) ==
  [phase |-> "returned", strategy |-> strategy, initialBoard |-> run.initialBoard,
   maxSteps |-> maxSteps, result |-> outcome.result, threw |-> outcome.threw,
   fallback |-> isFallback]

DfsSolver ==
  /\ run.phase = "called"
  /\ \E maxSteps \in StepLimits :
       run' = return("DFS", maxSteps, dfsSolver(run.initialBoard, maxSteps), FALSE)
  /\ UNCHANGED notRunVars

BfsSolver ==
  /\ run.phase = "called"
  /\ \E maxSteps \in StepLimits, maxQueueSize \in QueueSizes :
       run' = return("BFS", maxSteps,
                     bfsSolver(run.initialBoard, maxSteps, maxQueueSize), FALSE)
  /\ UNCHANGED notRunVars

IdaStarSolver ==
  /\ run.phase = "called"
  /\ \E maxSteps \in StepLimits, timedOut \in BOOLEAN :
       run' = return("IDA", maxSteps,
                     idaStarSolver(run.initialBoard, maxSteps, timedOut), FALSE)
  /\ UNCHANGED notRunVars

\* a queue strategy up to its while loop
PqStart(strategy) ==
  /\ run.phase = "called"
  /\ \E maxSteps \in StepLimits, maxQueueSize \in QueueSizes :
       run' = [phase |-> "running", strategy |-> strategy,
               initialBoard |-> run.initialBoard,
               maxSteps |-> maxSteps, maxQueueSize |-> maxQueueSize,
               pq |-> <<rootEntry(strategy, run.initialBoard)>>,
               seen |-> {<<hash(run.initialBoard), 0>>},
               threw |-> FALSE]
  /\ UNCHANGED notRunVars

\* one iteration of the while loop of a queue strategy, or its end
PqStep(strategy) ==
  /\ run.phase = "running"
  /\ run.strategy = strategy
  /\ IF run.pq = <<>>
     THEN run' = return(strategy, run.maxSteps, Returned(NULL), FALSE)
     ELSE \E i \in pollable(run.pq) :
            LET polled == [run EXCEPT !.pq = removeAt(@, i)]
                todo == polledCase(strategy, run.pq[i], run.maxSteps)
            IN IF todo = "return"
               THEN run' = return(strategy, run.maxSteps, Returned(run.pq[i].board), FALSE)
               ELSE IF todo = "continue"
               THEN run' = polled
               ELSE \E st \in pqMoves(polled, run.pq[i].board, getMoves(run.pq[i].board),
                                      strategy, run.maxQueueSize) :
                      run' = IF st.threw
                             THEN return(strategy, run.maxSteps, Thrown, FALSE)
                             ELSE st
  /\ UNCHANGED notRunVars

GbfsSolver == PqStart("GBFS") \/ PqStep("GBFS")

BranchBoundSolver == PqStart("A*") \/ PqStep("A*")

EnhancedBranchBoundSolver == PqStart("EA*") \/ PqStep("EA*")

\* mctsSolver up to its while loop
MctsStart ==
  /\ run.phase = "called"
  /\ \E maxSteps \in StepLimits :
       run' = [phase |-> "running", strategy |-> "MCTS",
               initialBoard |-> run.initialBoard, maxSteps |-> maxSteps,
               tree |-> <<Node(run.initialBoard, 0, NULL)>>,
               iterations |-> 0]
  /\ UNCHANGED notRunVars

\* one iteration of the while loop: select, expand, rollout, and either
\* the return of a solved rollout board or the backpropagation
MctsIterate ==
  /\ run.phase = "running"
  /\ run.strategy = "MCTS"
  /\ run.iterations < MaxIterations
  /\ \E selected \in select(run.tree, 1) :
       LET expanded == expand(run.tree, selected)
       IN IF expanded.threw
          THEN run' = return("MCTS", run.maxSteps, Thrown, FALSE)
          ELSE \E rollout \in simulate(expanded.tree[expanded.node].board, 0, run.maxSteps) :
                 run' = IF rollout.threw
                        THEN return("MCTS", run.maxSteps, Thrown, FALSE)
                        ELSE IF isSolvedBoard(rollout.board)
                        THEN return("MCTS", run.maxSteps, Returned(rollout.board), FALSE)
                        ELSE [run EXCEPT !.tree = backpropagate(expanded.tree, expanded.node),
                                         !.iterations = @ + 1]
  /\ UNCHANGED notRunVars

\* Date.now() - startTime reached timeoutMs: the loop is left and the
\* fallback is returned
MctsTimeout ==
  /\ run.phase = "running"
  /\ run.strategy = "MCTS"
  /\ run' = return("MCTS", run.maxSteps, Returned(fallback(run.tree)), TRUE)
  /\ UNCHANGED notRunVars

MctsSolver == MctsStart \/ MctsIterate \/ MctsTimeout

NextSolve ==
  \/ DfsSolver
  \/ BfsSolver
  \/ GbfsSolver
  \/ MctsSolver
  \/ BranchBoundSolver
  \/ EnhancedBranchBoundSolver
  \/ IdaStarSolver

SpecSolve == InitSolve /\ [][NextSolve]_vars

\* C1 -- Solver soundness: whenever a strategy returns a non-null board S
\* for an initial board with an empty move sequence, S is solved and
\* replaying S's moves click by click on the initial board gives S's grid.
SolverSoundness ==
  (run.phase = "returned" /\ ~run.threw /\ run.result # NULL) =>
     /\ isSolvedBoard(run.result)
     /\ playMoves(run.initialBoard, run.result.moveSequence.moves).fields = run.result.fields

\* C1 as the strategies have it: every board returned replays to its own
\* grid and move sequence; it is solved, except the board mctsSolver falls
\* back to when no rollout ended solved, which is never solved.
SolverSoundnessButFallback ==
  (run.phase = "returned" /\ ~run.threw /\ run.result # NULL) =>
     /\ playMoves(run.initialBoard, run.result.moveSequence.moves) = run.result
     /\ run.result.moveSequence.n = Len(run.result.moveSequence.moves)
     /\ isSolvedBoard(run.result) <=> ~run.fallback
     /\ run.fallback => run.strategy = "MCTS"

\* mctsSolver returned the solved board of a rollout two moves long
SolvedRolloutReturned ==
  /\ run.phase = "returned"
  /\ run.strategy = "MCTS"
  /\ ~run.fallback
  /\ run.result # NULL
  /\ run.result.moveSequence.n >= 2
  /\ isSolvedBoard(run.result)

\* ------------------------------------------------------------------------
\* SpecMain: main, from the return of solveWithAllStrategiesParallel on
\* ------------------------------------------------------------------------
\* MoveSequence.toString
toString(ms) == [i \in 1..Len(ms.moves) |-> moveString(ms.moves[i])]

\* src/solver/main.js, "Choose best solution": newBoard is what the
\* coordinator returned, read as one board; a value without the
\* moveSequence property makes newBoard.moveSequence.n and
\* newBoard.moveSequence.toString() throw a TypeError
chooseBest(newBoard, existingBoard, existingMoves, existingSolution) ==
  IF ~newBoard.null /\ existingBoard # NULL
  THEN IF ~has(newBoard, "moveSequence")
       THEN [chosenBoard |-> NULL, solutionStr |-> <<>>, threw |-> TRUE]
       ELSE IF newBoard.moveSequence.n < existingMoves
       THEN [chosenBoard |-> newBoard, solutionStr |-> toString(newBoard.moveSequence),
             threw |-> FALSE]
       ELSE [chosenBoard |-> existingBoard, solutionStr |-> existingSolution,
             threw |-> FALSE]
  ELSE IF ~newBoard.null
  THEN IF ~has(newBoard, "moveSequence")
       THEN [chosenBoard |-> NULL, solutionStr |-> <<>>, threw |-> TRUE]
       ELSE [chosenBoard |-> newBoard, solutionStr |-> toString(newBoard.moveSequence),
             threw |-> FALSE]
  ELSE IF existingBoard # NULL
  THEN [chosenBoard |-> existingBoard, solutionStr |-> existingSolution, threw |-> FALSE]
  ELSE [chosenBoard |-> NULL, solutionStr |-> <<>>, threw |-> FALSE]

\* the solved boards reached from board by at most depth clicks that
\* change it
RECURSIVE solutionsWithin(_, _), solutionsAfter(_, _)
solutionsWithin(board, depth) ==
  IF isSolvedBoard(board) THEN {board}
  ELSE IF depth = 0 THEN {}
  ELSE UNION {solutionsAfter(tryMove(board, getMoves(board)[k]), depth) :
                k \in 1..Len(getMoves(board))}

solutionsAfter(clicked, depth) ==
  IF clicked.threw \/ ~clicked.changed THEN {}
  ELSE solutionsWithin(clicked.board, depth - 1)

\* src/solver/main.js goes on with what the coordinator returned
ChooseBest ==
  /\ coord.phase = "returned"
  /\ caller.phase = "awaiting"
  /\ LET choice == chooseBest(coord.value, caller.existingBoard, caller.existingMoves,
                              caller.existingSolution)
     IN caller' = [phase |-> "chosen",
                   existingSolution |-> caller.existingSolution,
                   existingBoard |-> caller.existingBoard,
                   existingMoves |-> caller.existingMoves,
                   chosenBoard |-> choice.chosenBoard,
                   solutionStr |-> choice.solutionStr,
                   threw |-> choice.threw]
  /\ UNCHANGED <<wstate, terminated, chan, resolved, results, coord, posted, notCoordVars>>

NextMain == ChooseBest \/ MainChoose

\* whether a board of the returned list has the fewest moves of the list
fewestOf(board, list) ==
  /\ \E i \in 1..Len(list) : list[i] = board
  /\ \A i \in 1..Len(list) : board.moveSequence.n <= list[i].moveSequence.n

\* C11 -- Given the non-empty list of solved boards the coordinator
\* returned, main ends with a choice; unless it keeps an existing solution
\* that has no more moves than every board of the list, the board it
\* chooses is a board of the list with the fewest moves, and the solution
\* string it records is that board's move sequence.
MainPicksFewest ==
  (caller.phase = "chosen" /\ ~coord.value.null) =>
     /\ ~(has(caller, "threw") /\ caller.threw)
     /\ caller.chosenBoard # NULL
     /\ \/ /\ caller.existingBoard # NULL
           /\ caller.chosenBoard = caller.existingBoard
           /\ caller.solutionStr = caller.existingSolution
           /\ \A i \in 1..Len(coord.value.boards) :
                 caller.existingMoves <= coord.value.boards[i].moveSequence.n
        \/ /\ fewestOf(caller.chosenBoard, coord.value.boards)
           /\ caller.solutionStr = toString(caller.chosenBoard.moveSequence)

\* ------------------------------------------------------------------------
\* SpecHash: two boards of the same four cells, both clicked
\* ------------------------------------------------------------------------
\* JSON.stringify of an array: the texts of its elements between brackets,
\* comma separated
RECURSIVE joined(_)
joined(texts) ==
  IF Len(texts) = 0 THEN <<>>
  ELSE IF Len(texts) = 1 THEN Head(texts)
  ELSE Head(texts) \o <<",">> \o joined(Tail(texts))

stringifyArray(texts) == <<"[">> \o joined(texts) \o <<"]">>

\* JSON.stringify of a one-letter string
stringifyString(str) == <<"\"", str, "\"">>

\* a hash that also tells the number of moves made
hashTextWithMoves(fields, rows, cols, n) ==
  stringifyArray(
    [r \in 1..rows |->
       stringifyArray(
         [c \in 1..cols |->
            stringifyArray(<<stringifyString(fields[r - 1][c - 1].color),
                             stringifyString(fields[r - 1][c - 1].modifier),
                             <<n>>>>)])])

\* Board.hash as the text it is: JSON.stringify of the rows of
\* [color, modifier] pairs; n is the board's moveSequence.n
hashText(fields, rows, cols, n) ==
  stringifyArray(
    [r \in 1..rows |->
       stringifyArray(
         [c \in 1..cols |->
            stringifyArray(<<stringifyString(fields[r - 1][c - 1].color),
                             stringifyString(fields[r - 1][c - 1].modifier)>>)])])

\* hash() of a board object
hashOf(hf, hs, bd) == hashText(fieldsOf(hf, bd), bd.rows, bd.cols, hs[bd.moveSequence].n)

\* the (color, modifier) pairs of a board object in row-major order
rowMajor(hf, bd) ==
  [i \in 1..(bd.rows * bd.cols) |->
     <<hf[bd.fields[(i - 1) \div bd.cols][(i - 1) % bd.cols]].color,
       hf[bd.fields[(i - 1) \div bd.cols][(i - 1) % bd.cols]].modifier>>]

HashShapes == {<<2, 2>>, <<1, 4>>, <<4, 1>>}

HashKinds == {Field("r", "0"), Field("r", "R"), Field("r", "D")}

\* two boards built from the same four cells: b a square, c of any shape
InitHash ==
  /\ \E cells \in [1..4 -> HashKinds], shapeB \in {<<2, 2>>}, shapeC \in HashShapes :
       /\ heapFields = [i \in 1..8 |-> cells[((i - 1) % 4) + 1]]
       /\ boards = [b |-> boardOfGrid(shapeB[1], shapeB[2]),
                    c |-> [rows |-> shapeC[1], cols |-> shapeC[2],
                           fields |-> newFieldRefs(4, shapeC[1], shapeC[2]),
                           moveSequence |-> 2, hasBombs |-> FALSE]]
  /\ heapSeqs = <<MoveSequence, MoveSequence>>
  /\ last = NoOp
  /\ CoordIdle
  /\ run = [phase |-> "idle"]

\* a click on any cell of b or of c
ClickAny == \E name \in {"b", "c"}, row \in 0..3, col \in 0..3 : Click(name, row, col)

NextHash == ClickAny

SpecHash == InitHash /\ [][NextHash]_vars

\* C12 -- Hash stability, as first stated: two boards whose cells read in
\* row-major order give the same (color, modifier) pairs have equal
\* hashes, whatever their move sequences and their shapes.
HashStability ==
  rowMajor(heapFields, boards.b) = rowMajor(heapFields, boards.c) =>
    hashOf(heapFields, heapSeqs, boards.b) = hashOf(heapFields, heapSeqs, boards.c)

\* C12 -- Hash stability: two boards of the same numbers of rows and
\* columns whose cells read in row-major order give the same
\* (color, modifier) pairs have equal hashes, whatever their move
\* sequences; the hash value of the model's strategies agrees with the text.
HashStabilitySameShape ==
  /\ (/\ boards.b.rows = boards.c.rows
      /\ boards.b.cols = boards.c.cols
      /\ rowMajor(heapFields, boards.b) = rowMajor(heapFields, boards.c)) =>
       hashOf(heapFields, heapSeqs, boards.b) = hashOf(heapFields, heapSeqs, boards.c)
  /\ (hashOf(heapFields, heapSeqs, boards.b) = hashOf(heapFields, heapSeqs, boards.c)) <=>
       (hash([rows |-> boards.b.rows, cols |-> boards.b.cols,
              fields |-> fieldsOf(heapFields, boards.b)])
          = hash([rows |-> boards.c.rows, cols |-> boards.c.cols,
                  fields |-> fieldsOf(heapFields, boards.c)]))

\* b was painted and erased again, c never clicked: same shape, same
\* cells, different move sequences
SameCellsOtherMoves ==
  /\ boards.b.rows = boards.c.rows
  /\ boards.b.cols = boards.c.cols
  /\ rowMajor(heapFields, boards.b) = rowMajor(heapFields, boards.c)
  /\ heapSeqs[boards.b.moveSequence].n = 2
  /\ heapSeqs[boards.c.moveSequence].n = 0
  /\ last.op = "click" /\ last.changed

\* ------------------------------------------------------------------------
\* SpecRules: the first click on a level of any cells
\* ------------------------------------------------------------------------
Modifiers == {"U", "D", "L", "R", "w", "s", "a", "x", "F", "B"}

\* cells no click fires: empty, painted right, painted wrong, wall,
\* nothing at all, and a modifier the switch does not know
InertKinds ==
  {Field("r", "0"), Field("r", "r"), Field("g", "r"), Field("0", "X"), Field("0", "0"),
   Field("r", "?")}

\* clickable cells, of color r and of no color
FiringKinds == {Field(color, m) : color \in {"r", "0"}, m \in Modifiers}

\* rows of three cells with at most two clickable cells, squares of four
\* with at most one
RuleLevels(rows, cols) ==
  {g \in Grids(rows, cols, InertKinds \cup FiringKinds) :
      nClickable(rows, cols, g) <= (IF rows = cols THEN 1 ELSE 2)}

InitRules ==
  \E shape \in Shapes :
    \E g \in RuleLevels(shape[1], shape[2]) :
      /\ heapFields = heapOfGrid(shape[1], shape[2], g)
      /\ heapSeqs = <<MoveSequence>>
      /\ boards = [b |-> boardOfGrid(shape[1], shape[2]), c |-> NULL]
      /\ last = NoOp
      /\ CoordIdle
      /\ run = [phase |-> "idle"]

\* the first click made on the level
FirstClick ==
  /\ heapSeqs[boards.b.moveSequence].n = 0
  /\ ClickB

NextRules == FirstClick

SpecRules == InitRules /\ [][NextRules]_vars

\* the direction a static or rotating arrow fires in
direction(mod) ==
  IF mod \in {"U", "w"} THEN <<-1, 0>>
  ELSE IF mod \in {"D", "s"} THEN <<1, 0>>
  ELSE IF mod \in {"L", "a"} THEN <<0, -1>>
  ELSE <<0, 1>>

\* whether the j-th cell from (row, col) in direction d is on the board
\* and has modifier m
rayCell(g, rows, cols, row, col, d, j, m) ==
  /\ inBounds(rows, cols, row + j * d[1], col + j * d[2])
  /\ g[row + j * d[1]][col + j * d[2]].modifier = m

\* the length of the maximal run of cells of modifier m next to (row, col)
\* in direction d
runLength(g, rows, cols, row, col, d, m) ==
  CHOOSE k \in 0..(rows + cols) :
    /\ \A j \in 1..k : rayCell(g, rows, cols, row, col, d, j, m)
    /\ ~rayCell(g, rows, cols, row, col, d, k + 1, m)

\* grid g with the first len cells of the ray from (row, col) set to `to`
withRay(g, rows, cols, row, col, d, len, to) ==
  [r \in 0..(rows - 1) |-> [c \in 0..(cols - 1) |->
     IF \E j \in 1..len : r = row + j * d[1] /\ c = col + j * d[2]
     THEN [g[r][c] EXCEPT !.modifier = to]
     ELSE g[r][c]]]

\* what the ray of an arrow of the given color fired from (row, col) in
\* direction d makes of grid g, and whether it wrote a cell
rayResult(g, rows, cols, row, col, d, color) ==
  IF \/ ~inBounds(rows, cols, row + d[1], col + d[2])
     \/ g[row + d[1]][col + d[2]].modifier \notin {color, "0"}
  THEN [fields |-> g, written |-> FALSE]
  ELSE IF g[row + d[1]][col + d[2]].modifier = color
  THEN [fields |-> withRay(g, rows, cols, row, col, d,
                           runLength(g, rows, cols, row, col, d, color), "0"),
        written |-> runLength(g, rows, cols, row, col, d, color) >= 1]
  ELSE [fields |-> withRay(g, rows, cols, row, col, d,
                           runLength(g, rows, cols, row, col, d, "0"), color),
        written |-> runLength(g, rows, cols, row, col, d, "0") >= 1]

\* C13 -- Static arrow rule: a click on U, D, L or R looks at the adjacent
\* cell in its direction; out of bounds or neither the arrow's color nor
\* '0': grid unchanged, false; the arrow's color: the maximal run of that
\* modifier is set to '0'; '0': the maximal run of '0' is set to the
\* arrow's color; no other cell changes, true iff a cell was written.
StaticArrowRule ==
  [][(last'.op = "click" /\ last'.mod \in {"U", "D", "L", "R"}) =>
       LET bd == boards.b
           g == fieldsOf(heapFields, bd)
           ray == rayResult(g, bd.rows, bd.cols, last'.row, last'.col,
                            direction(last'.mod), g[last'.row][last'.col].color)
       IN /\ ~last'.threw
          /\ fieldsOf(heapFields', bd) = ray.fields
          /\ last'.changed = ray.written
    ]_vars

\* the arrow at the top of a column erased the two cells below it
ArrowErasedRun ==
  /\ last.op = "click" /\ last.mod = "D" /\ last.changed
  /\ last.row = 0
  /\ boards.b.rows = 3
  /\ heapFields[boards.b.fields[1][0]] = Field("r", "0")
  /\ heapFields[boards.b.fields[2][0]] = Field("r", "0")

\* the four orthogonal neighbours of (row, col) that are on the board and
\* have modifier m
floodSeeds(g, rows, cols, row, col, m) ==
  {p \in (0..(rows - 1)) \X (0..(cols - 1)) :
     /\ g[p[1]][p[2]].modifier = m
     /\ <<p[1] - row, p[2] - col>> \in {<<1, 0>>, <<-1, 0>>, <<0, 1>>, <<0, -1>>}}

\* the cells of modifier m that are 4-connected through such cells to a
\* cell of S
RECURSIVE floodRegion(_, _, _, _, _)
floodRegion(g, rows, cols, S, m) ==
  IF \A p \in (0..(rows - 1)) \X (0..(cols - 1)) :
       (/\ g[p[1]][p[2]].modifier = m
        /\ \E q \in S : <<p[1] - q[1], p[2] - q[2]>>
                           \in {<<1, 0>>, <<-1, 0>>, <<0, 1>>, <<0, -1>>}) => p \in S
  THEN S
  ELSE floodRegion(g, rows, cols,
         S \cup {p \in (0..(rows - 1)) \X (0..(cols - 1)) :
                   /\ g[p[1]][p[2]].modifier = m
                   /\ \E q \in S : <<p[1] - q[1], p[2] - q[2]>>
                                      \in {<<1, 0>>, <<-1, 0>>, <<0, 1>>, <<0, -1>>}},
         m)

\* grid g with the cells of S set to modifier `to`
withRegion(g, rows, cols, S, to) ==
  [r \in 0..(rows - 1) |-> [c \in 0..(cols - 1) |->
     IF <<r, c>> \in S THEN [g[r][c] EXCEPT !.modifier = to] ELSE g[r][c]]]

\* what a flood cell of the given color clicked at (row, col) makes of
\* grid g, and whether it wrote a cell
floodResult(g, rows, cols, row, col, color) ==
  IF floodSeeds(g, rows, cols, row, col, "0") # {}
  THEN [fields |-> withRegion(g, rows, cols,
                     floodRegion(g, rows, cols,
                                 floodSeeds(g, rows, cols, row, col, "0"), "0"),
                     color),
        written |-> TRUE]
  ELSE [fields |-> withRegion(g, rows, cols,
                     floodRegion(g, rows, cols,
                                 floodSeeds(g, rows, cols, row, col, color), color),
                     "0"),
        written |-> floodSeeds(g, rows, cols, row, col, color) # {}]

\* C14 -- Flood rule: a click on F sets to the cell's color every '0' cell
\* 4-connected through '0' cells to one of its four neighbours; only if
\* that painted no cell it sets to '0' every cell of the cell's color
\* connected in the same way; nothing else is written, and click returns
\* true iff at least one cell was written.
FloodRule ==
  [][(last'.op = "click" /\ last'.mod = "F") =>
       LET bd == boards.b
           g == fieldsOf(heapFields, bd)
           res == floodResult(g, bd.rows, bd.cols, last'.row, last'.col,
                              g[last'.row][last'.col].color)
       IN /\ ~last'.threw
          /\ fieldsOf(heapFields', bd) = res.fields
          /\ last'.changed = res.written
    ]_vars

\* C15 -- Bomb rule: a click on B sets the modifier of every cell of the
\* 3x3 square centred on it that is on the board (the bomb cell and
\* clickable cells included) to the bomb's color, except cells of
\* modifier 'X'; cells outside the square are unchanged and click
\* returns true.
BombRule ==
  [][(last'.op = "click" /\ last'.mod = "B") =>
       LET bd == boards.b
           g == fieldsOf(heapFields, bd)
           g2 == fieldsOf(heapFields', bd)
           color == g[last'.row][last'.col].color
       IN /\ ~last'.threw
          /\ last'.changed
          /\ \A r \in 0..(bd.rows - 1), c \in 0..(bd.cols - 1) :
               /\ g2[r][c].color = g[r][c].color
               /\ g2[r][c].onlyReachableFrom = g[r][c].onlyReachableFrom
               /\ g2[r][c].modifier =
                    IF /\ r \in (last'.row - 1)..(last'.row + 1)
                       /\ c \in (last'.col - 1)..(last'.col + 1)
                       /\ g[r][c].modifier # "X"
                    THEN color
                    ELSE g[r][c].modifier
    ]_vars

\* a bomb at the left end of a row painted itself and its neighbour and
\* left the arrow two cells away as it was
BombSparedFarCell ==
  /\ last.op = "click" /\ last.mod = "B" /\ last.changed
  /\ boards.b.cols = 3 /\ last.col = 0
  /\ heapFields[boards.b.fields[0][0]] = Field("r", "r")
  /\ heapFields[boards.b.fields[0][1]] = Field("r", "r")
  /\ heapFields[boards.b.fields[0][2]] = Field("r", "L")

\* ------------------------------------------------------------------------
\* SpecTurn: consecutive clicks on one rotating arrow
\* ------------------------------------------------------------------------
Turns == 4

RotatingKinds == {Field(color, m) : color \in {"r", "0"}, m \in {"w", "s", "a", "x"}}

\* levels whose only clickable cell is a rotating arrow at (row, col)
TurnLevels(rows, cols, row, col) ==
  {g \in Grids(rows, cols, InertKinds \cup RotatingKinds) :
     \A r \in 0..(rows - 1), c \in 0..(cols - 1) :
        (g[r][c] \in RotatingKinds) <=> (r = row /\ c = col)}

InitTurn ==
  \E shape \in Shapes :
    \E row \in 0..(shape[1] - 1), col \in 0..(shape[2] - 1) :
      \E g \in TurnLevels(shape[1], shape[2], row, col) :
        /\ heapFields = heapOfGrid(shape[1], shape[2], g)
        /\ heapSeqs = <<MoveSequence>>
        /\ boards = [b |-> boardOfGrid(shape[1], shape[2]), c |-> NULL]
        /\ last = NoOp
        /\ CoordIdle
        /\ run = [phase |-> "turning", row |-> row, col |-> col,
                  modifier |-> g[row][col].modifier]

\* one more click on the arrow
Turn ==
  /\ run.phase = "turning"
  /\ heapSeqs[boards.b.moveSequence].n < Turns
  /\ ClickCell("b", run.row, run.col)

NextTurn == Turn

SpecTurn == InitTurn /\ [][NextTurn]_vars

\* the modifier that follows m in the cycle of the rotating arrows
successor(m) ==
  IF m = "w" THEN "x" ELSE IF m = "x" THEN "s" ELSE IF m = "s" THEN "a" ELSE "w"

\* the static arrow that fires the ray of rotating arrow m
staticOf(m) ==
  IF m = "w" THEN "U" ELSE IF m = "s" THEN "D" ELSE IF m = "a" THEN "L" ELSE "R"

\* C16 -- Rotating arrow rule: a click on w, s, a or x fires the ray of
\* U, D, L, R respectively, then the clicked cell's modifier becomes its
\* successor in the cycle w->x->s->a->w, and click returns true even when
\* the ray wrote no cell; after four consecutive clicks on the same
\* rotating arrow the cell has its modifier back.
RotatingArrowRule ==
  [][(last'.op = "click" /\ last'.mod \in {"w", "s", "a", "x"}) =>
       LET bd == boards.b
           g == fieldsOf(heapFields, bd)
           ray == rayResult(g, bd.rows, bd.cols, last'.row, last'.col,
                            direction(staticOf(last'.mod)),
                            g[last'.row][last'.col].color)
       IN /\ ~last'.threw
          /\ last'.changed
          /\ fieldsOf(heapFields', bd) =
               [ray.fields EXCEPT ![last'.row][last'.col].modifier = successor(last'.mod)]
          /\ (run.phase = "turning" /\ heapSeqs'[bd.moveSequence].n = 4) =>
               heapFields'[bd.fields[run.row][run.col]].modifier = run.modifier
    ]_vars

\* four clicks on an arrow that pointed up: the first painted the cell
\* above it, the third and the fourth fired off the board, and the arrow
\* points up again
FourTurnsMade ==
  /\ run.phase = "turning" /\ run.modifier = "w"
  /\ run.row = 1 /\ run.col = 0 /\ boards.b.rows = 2
  /\ heapSeqs[boards.b.moveSequence].n = 4
  /\ heapFields[boards.b.fields[1][0]] = Field("r", "w")
  /\ heapFields[boards.b.fields[0][0]] = Field("r", "r")
  /\ heapFields[boards.b.fields[1][1]] = Field("r", "r")
  /\ last.op = "click" /\ last.mod = "a" /\ last.changed

\* C17 -- Inert click: a click on a cell of the board whose modifier is
\* none of L, R, U, D, w, s, a, x, F, B (empty, wall, a color letter, an
\* unknown character) returns false and leaves every cell's color and
\* modifier as they were; only the move sequence grows.
InertClick ==
  [][(last'.op = "click" /\ last'.mod \notin Modifiers) =>
       LET bd == boards.b
           ms == heapSeqs[bd.moveSequence]
           ms2 == heapSeqs'[bd.moveSequence]
       IN /\ ~last'.threw
          /\ ~last'.changed
          /\ heapFields' = heapFields
          /\ ms2.n = ms.n + 1
          /\ Len(ms2.moves) = Len(ms.moves) + 1
          /\ SubSeq(ms2.moves, 1, Len(ms.moves)) = ms.moves
          /\ ms2.moves[Len(ms2.moves)] = Position(last'.row, last'.col)
    ]_vars

\* a cell of unknown modifier was clicked: the move is logged and the
\* cell is as it was
UnknownCellClicked ==
  /\ last.op = "click" /\ last.mod = "?" /\ ~last.changed /\ ~last.threw
  /\ heapSeqs[boards.b.moveSequence].n = 1
  /\ heapFields[boards.b.fields[last.row][last.col]] = Field("r", "?")

\* the color letters
ColorLetters == {"r", "g", "b", "o", "d"}

\* C18 -- Solved predicate: isSolved() is true iff every cell is correct;
\* a cell is correct iff its color is not one of r, g, b, o, d, or its
\* modifier is a color letter equal to its color, or its modifier is
\* neither a color letter nor '0'.  So a colored arrow, bomb, flood or
\* wall cell is always correct and a colored '0' cell never is.
SolvedPredicate ==
  LET bd == boards.b
      cells == {heapFields[bd.fields[r][c]] : r \in 0..(bd.rows - 1), c \in 0..(bd.cols - 1)}
      correct(f) == \/ f.color \notin ColorLetters
                    \/ f.modifier \in ColorLetters /\ f.modifier = f.color
                    \/ f.modifier \notin ColorLetters /\ f.modifier # "0"
  IN /\ isSolved(heapFields, bd) <=> \A f \in cells : correct(f)
     /\ \A f \in cells :
          /\ (f.color \in ColorLetters /\ f.modifier \in Modifiers \cup {"X"}) => isCorrect(f)
          /\ (f.color \in ColorLetters /\ f.modifier = "0") => ~isCorrect(f)
          /\ isCorrect(f) <=> correct(f)

\* an arrow painted the two empty cells of its row and the level is
\* solved, the arrow counting as correct
SolvedByArrow ==
  /\ last.op = "click" /\ last.mod = "R" /\ last.changed
  /\ boards.b.cols = 3
  /\ heapFields[boards.b.fields[0][0]] = Field("r", "R")
  /\ heapFields[boards.b.fields[0][1]] = Field("r", "r")
  /\ heapFields[boards.b.fields[0][2]] = Field("r", "r")
  /\ isSolved(heapFields, boards.b)

\* ------------------------------------------------------------------------
\* SpecMoves: the positions a strategy tries from one board
\* ------------------------------------------------------------------------
MoveShapes == {<<2, 2>>, <<1, 3>>}

\* cells that are empty, an arrow or a bomb, reachable from anywhere, from
\* (0, 1) only or from (1, 0) only
MoveKinds ==
  {[color |-> "r", modifier |-> m, onlyReachableFrom |-> p] :
     m \in {"0", "R", "B"}, p \in {POSITION_NONE, Position(0, 1), Position(1, 0)}}

MoveLevels ==
  UNION {{boardOf(shape[1], shape[2], g) : g \in Grids(shape[1], shape[2], MoveKinds)} :
           shape \in MoveShapes}

\* a strategy is about to try the moves of a board: in the two for loops
\* of the searches, for a new Node of mctsSolver, or in a rollout
InitMoves ==
  /\ heapFields = <<>> /\ heapSeqs = <<>> /\ boards = [b |-> NULL, c |-> NULL]
  /\ last = NoOp
  /\ CoordIdle
  /\ \E board \in MoveLevels, phase \in {"for", "node", "rollout"} :
       run = [phase |-> phase, board |-> board, i |-> 0,
              untriedMoves |-> <<>>, tried |-> <<>>]

\* one pass of the inner for loop: cell (r, c) is skipped or tried
ForCell ==
  /\ run.phase = "for"
  /\ run.i < run.board.rows * run.board.cols
  /\ run' = [run EXCEPT
               !.i = @ + 1,
               !.tried = IF movable(run.board, run.i \div run.board.cols,
                                    run.i % run.board.cols)
                         THEN Append(@, Position(run.i \div run.board.cols,
                                                 run.i % run.board.cols))
                         ELSE @]
  /\ UNCHANGED notRunVars

\* new Node(board): untriedMoves = getMoves(board)
NewNode ==
  /\ run.phase = "node"
  /\ run' = [run EXCEPT !.phase = "expand", !.untriedMoves = getMoves(run.board)]
  /\ UNCHANGED notRunVars

\* expand(node): the move tried is untriedMoves.pop()
ExpandPop ==
  /\ run.phase = "expand"
  /\ run.untriedMoves # <<>>
  /\ run' = [run EXCEPT
               !.untriedMoves = SubSeq(@, 1, Len(@) - 1),
               !.tried = Append(@, run.untriedMoves[Len(run.untriedMoves)])]
  /\ UNCHANGED notRunVars

\* one pass of the loop of simulate(board): a solved board returns 1 and a
\* board without moves breaks before any position is tried; otherwise a
\* move is drawn with Math.random
RolloutStep ==
  /\ run.phase = "rollout"
  /\ IF isSolvedBoard(run.board) \/ getMoves(run.board) = <<>>
     THEN run' = [run EXCEPT !.phase = "rolled"]
     ELSE \E k \in 1..Len(getMoves(run.board)) :
            run' = [run EXCEPT !.phase = "rolled", !.tried = <<getMoves(run.board)[k]>>]
  /\ UNCHANGED notRunVars

NextMoves == ForCell \/ NewNode \/ ExpandPop \/ RolloutStep

SpecMoves == InitMoves /\ [][NextMoves]_vars

\* position p comes before position q in row-major order
before(p, q) == p.row < q.row \/ (p.row = q.row /\ p.col < q.col)

\* the positions of s are in row-major order
ascending(s) == \A i \in DOMAIN s, j \in DOMAIN s : i < j => before(s[i], s[j])

range(s) == {s[i] : i \in DOMAIN s}

reverse(s) == [i \in 1..Len(s) |-> s[Len(s) + 1 - i]]

\* the cells of a clickable modifier whose onlyReachableFrom is the NONE
\* sentinel or their own position
legal(board) ==
  {Position(r, c) : <<r, c>> \in
     {p \in (0..(board.rows - 1)) \X (0..(board.cols - 1)) :
        /\ board.fields[p[1]][p[2]].modifier \in Modifiers
        /\ board.fields[p[1]][p[2]].onlyReachableFrom
              \in {POSITION_NONE, Position(p[1], p[2])}}}

\* the strategy has tried what it tries from the board
triedAll ==
  \/ run.phase = "for" /\ run.i = run.board.rows * run.board.cols
  \/ run.phase = "expand" /\ run.untriedMoves = <<>>
  \/ run.phase = "rolled"

\* C19 as stated -- Move enumeration: in every strategy the positions tried
\* from a board are exactly the clickable cells whose onlyReachableFrom is
\* the NONE sentinel or the cell's own position, and they are tried in
\* row-major order.
MoveEnumeration ==
  /\ range(run.tried) \subseteq legal(run.board)
  /\ ascending(run.tried)
  /\ triedAll => range(run.tried) = legal(run.board)

\* C19 -- Move enumeration: every strategy enumerates from a board exactly
\* the clickable cells whose onlyReachableFrom is the NONE sentinel or the
\* cell's own position, in row-major order; the for loops of the searches
\* try them in that order, a Node of mctsSolver is expanded from the last
\* enumerated position to the first, and a rollout step tries one of them
\* when the board is not solved and has a move, and none otherwise.
MoveEnumerationInLoops ==
  /\ \A m \in Modifiers \cup {"0", "X", "r", "?"} :
        isClickable(Field("r", m)) <=> m \in Modifiers
  /\ range(run.tried) \subseteq legal(run.board)
  /\ ascending(getMoves(run.board)) /\ range(getMoves(run.board)) = legal(run.board)
  /\ run.phase = "for" =>
        /\ ascending(run.tried)
        /\ range(run.tried) =
             {p \in legal(run.board) : p.row * run.board.cols + p.col < run.i}
  /\ run.phase = "expand" =>
        run.untriedMoves \o reverse(run.tried) = getMoves(run.board)
  /\ run.phase = "rolled" =>
        Len(run.tried) = IF isSolvedBoard(run.board) \/ legal(run.board) = {}
                         THEN 0 ELSE 1

\* the for loops went through a 2x2 board: the arrow at (0, 0), reachable
\* from (0, 1) only, was skipped; (0, 1) and then (1, 0) were tried
LoopTriedInOrder ==
  /\ run.phase = "for" /\ run.i = 4
  /\ run.board.rows = 2
  /\ run.board.fields[0][0].modifier = "R"
  /\ run.board.fields[0][0].onlyReachableFrom = Position(0, 1)
  /\ run.board.fields[1][0].onlyReachableFrom = Position(1, 0)
  /\ run.tried = <<Position(0, 1), Position(1, 0)>>

\* ------------------------------------------------------------------------
\* SpecShare: strategies called one after another on one board object
\* ------------------------------------------------------------------------
\* src/solver/multiSolver.js and src/unnamed/part_000: the limits the
\* workers call the strategies with
DEFAULT_MAX_STEPS == 100

DEFAULT_MAX_QUEUE_SIZE == 100000

MaxCopies == 2

\* the strategies a worker of src/unnamed/part_000 may be started for, in
\* the order the coordinator lists them
Strategies ==
  <<"dfsSolver", "bfsSolver", "gbfsSolver", "mctsSolver", "branchBoundSolver",
    "enhancedBranchBoundSolver", "idaStarSolver">>

\* the strategies solveWithAllStrategiesParallel of src/unnamed/part_002
\* calls on its board, one after another: solvers.map(s => ... s.func(board,
\* debug) ...)
solversOfPart002 == <<"dfsSolver", "bfsSolver", "branchBoundSolver", "idaStarSolver">>

\* rows of three cells, empty, an arrow or a rotating arrow, with at most
\* two clickable cells; a rotating arrow, which a rollout may click up to
\* DEFAULT_MAX_STEPS times, is the only clickable cell of its row
ShareLevels ==
  {g \in Grids(1, 3, {Field("r", "0")} \cup {Field("r", m) : m \in {"R", "w"}}) :
      /\ nClickable(1, 3, g) \in ClickableCounts
      /\ (\E c \in 0..2 : g[0][c].modifier = "w") => nClickable(1, 3, g) = 1}

\* the cells and the move sequence of board object bd
contents(hf, hs, bd) ==
  [fields |-> fieldsOf(hf, bd), moveSequence |-> hs[bd.moveSequence]]

\* the board object is the coordinator's of part_002, or the one a worker of
\* part_000 built with boardFromData
InitShare ==
  \E g \in ShareLevels, inWorker \in BOOLEAN :
    /\ heapFields = heapOfGrid(1, 3, g)
    /\ heapSeqs = <<MoveSequence>>
    /\ boards = [b |-> boardOfGrid(1, 3), c |-> NULL]
    /\ last = NoOp
    /\ CoordIdle
    /\ run = [phase |-> "idle", inWorker |-> inWorker, called |-> 0, strategy |-> "",
              held |-> {}, rollout |-> NULL, depth |-> 0, broke |-> FALSE,
              best |-> NULL, returned |-> <<>>, baseFields |-> 3, baseSeqs |-> 1,
              before |-> NULL, first |-> NULL]

\* a strategy was called with the board object: it holds the object, and
\* the objects it makes come after those that are on the heap now
calledWith(strategy) ==
  [run EXCEPT !.phase = "running", !.called = @ + 1, !.strategy = strategy,
              !.held = {boards.b}, !.rollout = NULL, !.depth = 0, !.broke = FALSE,
              !.best = NULL,
              !.baseFields = Len(heapFields), !.baseSeqs = Len(heapSeqs),
              !.before = contents(heapFields, heapSeqs, boards.b),
              !.first = IF run.first = NULL
                        THEN contents(heapFields, heapSeqs, boards.b)
                        ELSE run.first]

\* const res = s.func(board, debug) for the next of the four strategies of
\* part_002
CallStrategy ==
  /\ ~run.inWorker
  /\ run.phase \in {"idle", "returned"}
  /\ run.called < Len(solversOfPart002)
  /\ run' = calledWith(solversOfPart002[run.called + 1])
  /\ UNCHANGED <<boardVars, coordVars>>

\* const result = solverFunc(board, debug) in a worker of part_000, which
\* runs the one strategy it was started for
WorkerCall ==
  /\ run.inWorker
  /\ run.phase = "idle"
  /\ \E i \in 1..Len(Strategies) : run' = calledWith(Strategies[i])
  /\ UNCHANGED <<boardVars, coordVars>>

\* the cells of board object bd a strategy clicks
movableCells(hf, bd) ==
  {p \in (0..(bd.rows - 1)) \X (0..(bd.cols - 1)) :
     movable([fields |-> fieldsOf(hf, bd)], p[1], p[2])}

\* simulate(rolloutBoard) is in its loop: depth < maxSteps, the board is
\* not solved, it has a move, and no click returned false; mctsSolver runs
\* in the workers only, which call it with DEFAULT_MAX_STEPS
simulating ==
  /\ run.rollout # NULL
  /\ ~run.broke
  /\ run.depth < DEFAULT_MAX_STEPS
  /\ ~isSolved(heapFields, run.rollout)
  /\ movableCells(heapFields, run.rollout) # {}

\* idaStarSolver and mctsSolver leave their loops once bestSolution or
\* bestSolved is set
loopLeft == run.strategy \in {"idaStarSolver", "mctsSolver"} /\ run.best # NULL

\* const newBoard = board.copy(); if (!newBoard.click(r, c)) continue;
\* for a board the strategy holds: the loop body of the searches and
\* expand of mctsSolver; a newBoard that changed is held from then on
CopyAndClick ==
  /\ run.phase = "running"
  /\ ~simulating /\ ~loopLeft
  /\ Len(heapSeqs) - run.baseSeqs < MaxCopies
  /\ \E bd \in run.held :
       \E p \in movableCells(heapFields, bd) :
         LET copied == copy(heapFields, heapSeqs, bd)
             clicked == click(copied.heapFields, copied.heapSeqs, copied.board, p[1], p[2])
         IN /\ heapFields' = clicked.heapFields
            /\ heapSeqs' = clicked.heapSeqs
            /\ last' = [op |-> "click", board |-> "newBoard", row |-> p[1], col |-> p[2],
                        mod |-> heapFields[bd.fields[p[1]][p[2]]].modifier,
                        changed |-> clicked.changed, threw |-> clicked.threw]
            /\ run' = [run EXCEPT !.held = IF clicked.changed /\ ~clicked.threw
                                           THEN @ \cup {copied.board} ELSE @]
  /\ UNCHANGED <<boards, coordVars>>

\* the boards bestSolution or bestSolved may be set to a copy of: in
\* dfsSolver a solved board of fewer moves than bestSolution, in
\* idaStarSolver a solved board, in mctsSolver the rollout board once
\* simulate is over and left it solved
bestSources ==
  IF run.strategy = "dfsSolver"
  THEN {bd \in run.held :
          /\ isSolved(heapFields, bd)
          /\ run.best # NULL
               => heapSeqs[bd.moveSequence].n < heapSeqs[run.best.moveSequence].n}
  ELSE IF run.strategy = "idaStarSolver"
  THEN {bd \in run.held : isSolved(heapFields, bd)}
  ELSE IF run.strategy = "mctsSolver" /\ run.rollout # NULL
  THEN {bd \in {run.rollout} : isSolved(heapFields, bd)}
  ELSE {}

\* bestSolution = board.copy() of dfsSolver and idaStarSolver, and
\* bestSolved = rolloutBoard.copy() of mctsSolver
CopyBest ==
  /\ run.phase = "running"
  /\ ~simulating /\ ~loopLeft
  /\ Len(heapSeqs) - run.baseSeqs < MaxCopies
  /\ \E bd \in bestSources :
       LET copied == copy(heapFields, heapSeqs, bd)
       IN /\ heapFields' = copied.heapFields
          /\ heapSeqs' = copied.heapSeqs
          /\ run' = [run EXCEPT !.best = copied.board]
  /\ last' = [NoOp EXCEPT !.op = "copy", !.board = "bestSolution"]
  /\ UNCHANGED <<boards, coordVars>>

\* const rolloutBoard = node.board.copy(), in an iteration that follows one
\* whose rollout did not end solved
StartRollout ==
  /\ run.phase = "running" /\ run.strategy = "mctsSolver"
  /\ ~simulating /\ ~loopLeft
  /\ run.rollout # NULL => ~isSolved(heapFields, run.rollout)
  /\ Len(heapSeqs) - run.baseSeqs < MaxCopies
  /\ \E bd \in run.held :
       LET copied == copy(heapFields, heapSeqs, bd)
       IN /\ heapFields' = copied.heapFields
          /\ heapSeqs' = copied.heapSeqs
          /\ run' = [run EXCEPT !.rollout = copied.board, !.depth = 0, !.broke = FALSE]
  /\ last' = [NoOp EXCEPT !.op = "copy", !.board = "rolloutBoard"]
  /\ UNCHANGED <<boards, coordVars>>

\* one pass of the loop of simulate(rolloutBoard): board.click(m.r, m.c) on
\* the rollout board itself; a click that returns false ends the loop,
\* another one counts in depth
RolloutClick ==
  /\ run.phase = "running" /\ run.strategy = "mctsSolver"
  /\ simulating
  /\ \E p \in movableCells(heapFields, run.rollout) :
       LET clicked == click(heapFields, heapSeqs, run.rollout, p[1], p[2])
       IN /\ heapFields' = clicked.heapFields
          /\ heapSeqs' = clicked.heapSeqs
          /\ last' = [op |-> "click", board |-> "rolloutBoard", row |-> p[1], col |-> p[2],
                      mod |-> heapFields[run.rollout.fields[p[1]][p[2]]].modifier,
                      changed |-> clicked.changed, threw |-> clicked.threw]
          /\ run' = [run EXCEPT !.depth = IF clicked.changed THEN @ + 1 ELSE @,
                                !.broke = ~clicked.changed]
  /\ UNCHANGED <<boards, coordVars>>

\* what the strategy may return: bestSolution in dfsSolver and
\* idaStarSolver; bestSolved, or else the board of a child of the root if
\* there is one, in mctsSolver; a solved board taken from the queue, or
\* null, in the queue strategies
returnable ==
  IF run.strategy \in {"dfsSolver", "idaStarSolver"} THEN {run.best}
  ELSE IF run.strategy = "mctsSolver"
  THEN IF run.best # NULL THEN {run.best}
       ELSE IF run.rollout # NULL /\ isSolved(heapFields, run.rollout) THEN {}
       ELSE IF {bd \in run.held : heapSeqs[bd.moveSequence].n = 1} = {} THEN {NULL}
       ELSE {bd \in run.held : heapSeqs[bd.moveSequence].n = 1}
  ELSE {NULL} \cup {bd \in run.held : isSolved(heapFields, bd)}

\* the strategy returns, resolve(res): the board returned stays referenced,
\* next to those returned before it; the other boards the strategy made
\* are out of reach and their objects are collected
ReturnStrategy ==
  /\ run.phase = "running"
  /\ ~simulating
  /\ \E res \in returnable :
       IF res = NULL \/ res = boards.b
       THEN /\ heapFields' = SubSeq(heapFields, 1, run.baseFields)
            /\ heapSeqs' = SubSeq(heapSeqs, 1, run.baseSeqs)
            /\ run' = [run EXCEPT !.phase = "returned", !.strategy = "", !.held = {},
                                  !.rollout = NULL, !.depth = 0, !.broke = FALSE,
                                  !.best = NULL, !.returned = Append(@, res)]
       ELSE /\ heapFields' = SubSeq(heapFields, 1, run.baseFields)
                               \o [i \in 1..(res.rows * res.cols) |->
                                     heapFields[res.fields[(i - 1) \div res.cols]
                                                          [(i - 1) % res.cols]]]
            /\ heapSeqs' = Append(SubSeq(heapSeqs, 1, run.baseSeqs),
                                  heapSeqs[res.moveSequence])
            /\ run' = [run EXCEPT !.phase = "returned", !.strategy = "", !.held = {},
                                  !.rollout = NULL, !.depth = 0, !.broke = FALSE,
                                  !.best = NULL,
                                  !.returned =
                                     Append(@, [res EXCEPT
                                                  !.fields = newFieldRefs(run.baseFields,
                                                                          res.rows, res.cols),
                                                  !.moveSequence = run.baseSeqs + 1])]
  /\ last' = NoOp
  /\ UNCHANGED <<boards, coordVars>>

NextShare ==
  \/ CallStrategy \/ WorkerCall \/ CopyAndClick \/ CopyBest \/ StartRollout
  \/ RolloutClick \/ ReturnStrategy

SpecShare == InitShare /\ [][NextShare]_vars

\* C20 -- No strategy mutates the initial board it is given: while a
\* strategy runs and after it returns, the initial board's cells and move
\* sequence are what they were before the call, so every strategy called
\* on the same board object starts from the state the first one started
\* from.
InitialBoardUntouched ==
  run.phase \in {"running", "returned"} =>
    /\ contents(heapFields, heapSeqs, boards.b) = run.before
    /\ run.before = run.first
    /\ boards.b = boardOfGrid(1, 3)

\* bfsSolver, the second strategy of part_002, clicked a copy of the
\* board after dfsSolver returned a solved copy of it, which is still on
\* the heap: the board both were given has its empty cell and no move
LaterStrategyStartsAlike ==
  /\ ~run.inWorker
  /\ run.phase = "running" /\ run.strategy = "bfsSolver" /\ run.called = 2
  /\ run.returned # <<>> /\ run.returned[1] # NULL /\ run.returned[1] # boards.b
  /\ isSolved(heapFields, run.returned[1])
  /\ heapSeqs[run.returned[1].moveSequence].n >= 1
  /\ last.op = "click" /\ last.board = "newBoard" /\ last.changed
  /\ fieldsOf(heapFields, boards.b)[0][1] = Field("r", "0")
  /\ heapSeqs[boards.b.moveSequence].n = 0

\* C21 -- When no strategy finds a solution (the coordinator returns
\* none), the solution attribute main writes for the level is the solution
\* attribute the level came with (empty if it had none).
PriorSolutionRetained ==
  (caller.phase = "chosen" /\ coord.phase = "returned" /\ coord.value.null) =>
     caller.solutionStr = caller.existingSolution

\* ------------------------------------------------------------------------
\* SpecDfs: the recursion of dfsSolver, call by call
\* ------------------------------------------------------------------------
\* dfs(board) was called: the call is logged
enter(st, board) == [st EXCEPT !.entered = Append(@, board)]

\* dfs(board) of dfsSolver with its calls and its expansions logged.  With
\* skips the loop body is `if (!newBoard.click(r, c)) continue;` as in
\* src/solver/multiSolver.js; without, the click's value is dropped and
\* dfs(newBoard) is always called, as in src/unnamed/part_001.
RECURSIVE dfsTrace(_, _, _, _), dfsTraceMoves(_, _, _, _, _)
dfsTrace(skips, st, board, maxSteps) ==
  IF st.threw THEN st
  ELSE IF board.moveSequence.n > maxSteps THEN enter(st, board)
  ELSE IF isSolvedBoard(board)
  THEN IF st.bestSolution = NULL \/ board.moveSequence.n < st.bestSolution.moveSequence.n
       THEN [enter(st, board) EXCEPT !.bestSolution = board]
       ELSE enter(st, board)
  ELSE IF hash(board) \in st.visited THEN enter(st, board)
  ELSE dfsTraceMoves(skips,
                     [enter(st, board) EXCEPT !.visited = @ \cup {hash(board)},
                                              !.expanded = Append(@, board)],
                     board, getMoves(board), maxSteps)

dfsTraceMoves(skips, st, board, moves, maxSteps) ==
  IF moves = <<>> \/ st.threw THEN st
  ELSE IF tryMove(board, Head(moves)).threw THEN [st EXCEPT !.threw = TRUE]
  ELSE IF skips /\ ~tryMove(board, Head(moves)).changed
  THEN dfsTraceMoves(skips, st, board, Tail(moves), maxSteps)
  ELSE dfsTraceMoves(skips,
                     dfsTrace(skips, st, tryMove(board, Head(moves)).board, maxSteps),
                     board, Tail(moves), maxSteps)

\* what a dfsSolver call leaves behind: its log, and what it returned
searched(file, skips, maxSteps) ==
  [phase |-> "searched", file |-> file, initialBoard |-> run.initialBoard,
   maxSteps |-> maxSteps,
   log |-> dfsTrace(skips, [bestSolution |-> NULL, visited |-> {}, entered |-> <<>>,
                            expanded |-> <<>>, threw |-> FALSE],
                    run.initialBoard, maxSteps),
   outcome |-> IF skips THEN dfsSolver(run.initialBoard, maxSteps)
               ELSE dfsReturn(dfsTrace(skips,
                                       [bestSolution |-> NULL, visited |-> {},
                                        entered |-> <<>>, expanded |-> <<>>,
                                        threw |-> FALSE],
                                       run.initialBoard, maxSteps))]

\* dfsSolver of src/solver/multiSolver.js
DfsSkipping ==
  /\ run.phase = "called"
  /\ \E maxSteps \in StepLimits : run' = searched("multiSolver.js", TRUE, maxSteps)
  /\ UNCHANGED notRunVars

\* src/unnamed/part_001: const maxSteps = 40, the step limit of its
\* searches, which take no limit as a parameter
maxStepsOfPart001 == 40

\* dfsSolver(initialBoard, debug) of src/unnamed/part_001
DfsAlways ==
  /\ run.phase = "called"
  /\ run' = searched("part_001", FALSE, maxStepsOfPart001)
  /\ UNCHANGED notRunVars

NextDfs == DfsSkipping \/ DfsAlways

SpecDfs == InitSolve /\ [][NextDfs]_vars

\* whether one of the clicks of moves, made in order from board, returns
\* false
RECURSIVE hasFalseClick(_, _)
hasFalseClick(board, moves) ==
  IF moves = <<>> THEN FALSE
  ELSE IF ~clickBoard(board, Head(moves).row, Head(moves).col).changed THEN TRUE
  ELSE hasFalseClick(clickBoard(board, Head(moves).row, Head(moves).col).board,
                     Tail(moves))

\* C22 -- Skip no-op moves: in every dfsSolver a click that returns false
\* is never recursed into, so no board dfs is called with and no board
\* returned has a move sequence containing a click that returned false.
NoOpNeverRecursed ==
  (run.phase = "searched" /\ ~run.log.threw) =>
     /\ \A i \in 1..Len(run.log.entered) :
           ~hasFalseClick(run.initialBoard, run.log.entered[i].moveSequence.moves)
     /\ run.outcome.result # NULL =>
           ~hasFalseClick(run.initialBoard, run.outcome.result.moveSequence.moves)

\* the calls of dfs, in order, that came to a solved board within the step
\* limit
reachedSolved ==
  {i \in 1..Len(run.log.entered) :
     /\ run.log.entered[i].moveSequence.n <= run.maxSteps
     /\ isSolvedBoard(run.log.entered[i])}

\* C23 -- dfsSolver returns, among the solved boards its recursion reaches
\* within max_steps moves, one with the fewest moves, the first such in
\* exploration order; it returns none iff the recursion reaches no solved
\* board.
DfsReturnsFewest ==
  (run.phase = "searched" /\ run.file = "multiSolver.js" /\ ~run.outcome.threw) =>
     /\ (run.outcome.result = NULL) <=> (reachedSolved = {})
     /\ reachedSolved # {} =>
          \E i \in reachedSolved :
             /\ run.outcome.result = run.log.entered[i]
             /\ \A j \in reachedSolved :
                  /\ run.log.entered[i].moveSequence.n <= run.log.entered[j].moveSequence.n
                  /\ run.log.entered[j].moveSequence.n = run.log.entered[i].moveSequence.n
                       => i <= j

\* the recursion reached a solved board first and one with fewer moves
\* later, and the later one was returned
FewerMovesFoundLater ==
  /\ run.phase = "searched" /\ run.file = "multiSolver.js" /\ ~run.outcome.threw
  /\ \E i, j \in reachedSolved :
       /\ i < j
       /\ run.log.entered[j].moveSequence.n < run.log.entered[i].moveSequence.n
       /\ run.outcome.result = run.log.entered[j]

\* ------------------------------------------------------------------------
\* SpecQueue: the queue strategies, one poll and one successor at a time
\* ------------------------------------------------------------------------
\* the fields every queue strategy starts its while loop with; enqueued
\* collects the boards handed to queue.push / pq.add, offer is the last
\* successor the loop body dealt with
begun(strategy, maxSteps, maxQueueSize) ==
  [phase |-> "polling", strategy |-> strategy, initialBoard |-> run.initialBoard,
   maxSteps |-> maxSteps, maxQueueSize |-> maxQueueSize, threw |-> FALSE,
   board |-> NULL, moves |-> <<>>, offer |-> NULL, enqueued |-> {run.initialBoard}]

\* bfsSolver up to its while loop
BfsStart ==
  /\ run.phase = "called"
  /\ \E maxSteps \in StepLimits, maxQueueSize \in QueueSizes :
       run' = begun("BFS", maxSteps, maxQueueSize)
              @@ [queue |-> <<run.initialBoard>>, head |-> 0,
                  visited |-> {<<hash(run.initialBoard), 0>>}]
  /\ UNCHANGED notRunVars

\* what bfsSolver returns, with the queue and the boards pushed so far as
\* they are at the return statement
bfsReturn(outcome) ==
  return("BFS", run.maxSteps, outcome, FALSE)
  @@ [maxQueueSize |-> run.maxQueueSize, queue |-> run.queue, enqueued |-> run.enqueued]

\* a loop head that tests the step limit before it tests isSolved
BfsPopLimitFirst ==
  /\ run.phase = "polling"
  /\ run.strategy = "BFS"
  /\ run' = IF ~(run.head < Len(run.queue))
            THEN bfsReturn(Returned(NULL))
            ELSE IF run.queue[run.head + 1].moveSequence.n >= run.maxSteps
            THEN [run EXCEPT !.head = @ + 1, !.offer = NULL]
            ELSE IF isSolvedBoard(run.queue[run.head + 1])
            THEN bfsReturn(Returned(run.queue[run.head + 1]))
            ELSE [run EXCEPT !.head = @ + 1, !.offer = NULL, !.phase = "expanding",
                             !.board = run.queue[run.head + 1],
                             !.moves = getMoves(run.queue[run.head + 1])]
  /\ UNCHANGED notRunVars

\* a loop head that goes back to the front of the queue when it meets a
\* board of maxSteps moves
BfsPopAgain ==
  /\ run.phase = "polling"
  /\ run.strategy = "BFS"
  /\ run' = IF ~(run.head < Len(run.queue))
            THEN bfsReturn(Returned(NULL))
            ELSE IF isSolvedBoard(run.queue[run.head + 1])
            THEN bfsReturn(Returned(run.queue[run.head + 1]))
            ELSE IF run.queue[run.head + 1].moveSequence.n >= run.maxSteps
            THEN [run EXCEPT !.head = 0, !.offer = NULL]
            ELSE [run EXCEPT !.head = @ + 1, !.offer = NULL, !.phase = "expanding",
                             !.board = run.queue[run.head + 1],
                             !.moves = getMoves(run.queue[run.head + 1])]
  /\ UNCHANGED notRunVars

\* const board = queue[head++] and the two tests on it, or the loop's end
BfsPop ==
  /\ run.phase = "polling"
  /\ run.strategy = "BFS"
  /\ run' = IF ~(run.head < Len(run.queue))
            THEN bfsReturn(Returned(NULL))
            ELSE IF isSolvedBoard(run.queue[run.head + 1])
            THEN bfsReturn(Returned(run.queue[run.head + 1]))
            ELSE IF run.queue[run.head + 1].moveSequence.n >= run.maxSteps
            THEN [run EXCEPT !.head = @ + 1, !.offer = NULL]
            ELSE [run EXCEPT !.head = @ + 1, !.offer = NULL, !.phase = "expanding",
                             !.board = run.queue[run.head + 1],
                             !.moves = getMoves(run.queue[run.head + 1])]
  /\ UNCHANGED notRunVars

\* the loop state after the body dealt with one cell: what was offered,
\* and whether it was recorded
offered(st, clicked, prior, keys) ==
  [st EXCEPT !.moves = Tail(@),
             !.offer = [board |-> clicked.board, changed |-> clicked.changed,
                        kept |-> keys # prior.keys, before |-> prior],
             !.enqueued = IF keys # prior.keys THEN @ \cup {clicked.board} ELSE @]

\* one pass of the loop body of bfsSolver, or the end of the two loops
BfsOffer ==
  /\ run.phase = "expanding"
  /\ run.strategy = "BFS"
  /\ run' = IF run.moves = <<>> THEN [run EXCEPT !.phase = "polling", !.board = NULL]
            ELSE IF bfsPush(run, tryMove(run.board, Head(run.moves)), run.maxQueueSize).threw
            THEN return("BFS", run.maxSteps, Thrown, FALSE)
            ELSE offered(bfsPush(run, tryMove(run.board, Head(run.moves)), run.maxQueueSize),
                         tryMove(run.board, Head(run.moves)),
                         [queue |-> run.queue, head |-> run.head, keys |-> run.visited,
                          enqueued |-> run.enqueued],
                         bfsPush(run, tryMove(run.board, Head(run.moves)),
                                 run.maxQueueSize).visited)
  /\ UNCHANGED notRunVars

\* a priority-queue strategy up to its while loop
PqBegin(strategy) ==
  /\ run.phase = "called"
  /\ \E maxSteps \in StepLimits, maxQueueSize \in QueueSizes :
       run' = begun(strategy, maxSteps, maxQueueSize)
              @@ [pq |-> <<rootEntry(strategy, run.initialBoard)>>,
                  seen |-> {<<hash(run.initialBoard), 0>>}]
  /\ UNCHANGED notRunVars

\* pq.poll() and the two tests on the polled element, or the loop's end
PqPoll(strategy) ==
  /\ run.phase = "polling"
  /\ run.strategy = strategy
  /\ IF run.pq = <<>>
     THEN run' = return(strategy, run.maxSteps, Returned(NULL), FALSE)
     ELSE \E i \in pollable(run.pq) :
            run' = IF polledCase(strategy, run.pq[i], run.maxSteps) = "return"
                   THEN return(strategy, run.maxSteps, Returned(run.pq[i].board), FALSE)
                   ELSE IF polledCase(strategy, run.pq[i], run.maxSteps) = "continue"
                   THEN [run EXCEPT !.pq = removeAt(@, i), !.offer = NULL]
                   ELSE [run EXCEPT !.pq = removeAt(@, i), !.offer = NULL,
                                    !.phase = "expanding",
                                    !.board = run.pq[i].board,
                                    !.moves = getMoves(run.pq[i].board)]
  /\ UNCHANGED notRunVars

\* one pass of the loop body of a priority-queue strategy, or the end of
\* the two loops
PqOffer(strategy) ==
  /\ run.phase = "expanding"
  /\ run.strategy = strategy
  /\ IF run.moves = <<>>
     THEN run' = [run EXCEPT !.phase = "polling", !.board = NULL]
     ELSE \E st \in pqPush(run, tryMove(run.board, Head(run.moves)), strategy,
                           run.maxQueueSize) :
            run' = IF st.threw THEN return(strategy, run.maxSteps, Thrown, FALSE)
                   ELSE offered(st, tryMove(run.board, Head(run.moves)),
                                [pq |-> run.pq, keys |-> run.seen,
                                 enqueued |-> run.enqueued],
                                st.seen)
  /\ UNCHANGED notRunVars

GbfsLoop == PqBegin("GBFS") \/ PqPoll("GBFS") \/ PqOffer("GBFS")

BranchBoundLoop == PqBegin("A*") \/ PqPoll("A*") \/ PqOffer("A*")

EnhancedBranchBoundLoop == PqBegin("EA*") \/ PqPoll("EA*") \/ PqOffer("EA*")

NextQueue ==
  \/ DfsSkipping
  \/ BfsStart \/ BfsPop \/ BfsOffer
  \/ GbfsLoop \/ BranchBoundLoop \/ EnhancedBranchBoundLoop

SpecQueue == InitSolve /\ [][NextQueue]_vars

\* a queue strategy's loop body has just dealt with a successor, one whose
\* click changed the board
successorOffered ==
  /\ run.phase \in {"polling", "expanding"}
  /\ run.offer # NULL
  /\ run.offer.changed

\* the same grid state was handed to the queue before with the same move
\* count
recordedAtDepth(board, enqueued) ==
  \E b \in enqueued : /\ hash(b) = hash(board)
                      /\ b.moveSequence.n = board.moveSequence.n

\* C24 -- Dedup keying: bfsSolver, gbfsSolver, branchBoundSolver and
\* enhancedBranchBoundSolver discard a successor iff the same grid state
\* was recorded before with the same move count, so a state reached again
\* at another depth is enqueued again; dfsSolver keys its visited set by
\* the grid state alone and expands no grid state twice, at any depth.
DedupKeying ==
  /\ successorOffered =>
       (~run.offer.kept <=> recordedAtDepth(run.offer.board, run.offer.before.enqueued))
  /\ (run.phase = "searched" /\ ~run.log.threw) =>
       /\ run.log.visited = {hash(run.log.expanded[i]) : i \in 1..Len(run.log.expanded)}
       /\ \A i, j \in 1..Len(run.log.expanded) :
             hash(run.log.expanded[i]) = hash(run.log.expanded[j]) => i = j

\* a queue strategy came to a grid state it had enqueued before at another
\* depth, and enqueued it again
EnqueuedAgainAtAnotherDepth ==
  /\ successorOffered
  /\ run.offer.kept
  /\ \E b \in run.offer.before.enqueued :
       /\ hash(b) = hash(run.offer.board)
       /\ b.moveSequence.n # run.offer.board.moveSequence.n
  /\ \/ /\ has(run, "queue")
        /\ run.queue[Len(run.queue)] = run.offer.board
     \/ /\ has(run, "pq")
        /\ \E i \in 1..Len(run.pq) : run.pq[i].board = run.offer.board

\* the boards of bfsSolver's queue not popped yet, oldest first
waiting(queue, head) == SubSeq(queue, head + 1, Len(queue))

\* bfsSolver has just pushed a successor: the boards that waited once it
\* was pushed
waitingWhenPushed ==
  Append(waiting(run.offer.before.queue, run.offer.before.head), run.offer.board)

\* C25 -- BFS lossy cap: in bfsSolver a board is discarded from the queue
\* only when the number of boards waiting exceeds max_queue_size, the
\* discarded board is then the oldest one waiting, and the queue never
\* holds more than max_queue_size boards after an insertion.
BfsLossyCap ==
  (successorOffered /\ run.strategy = "BFS" /\ run.offer.kept) =>
     /\ Len(run.queue) <= run.maxQueueSize
     /\ waiting(run.queue, run.head) # waitingWhenPushed =>
          /\ Len(waitingWhenPushed) > run.maxQueueSize
          /\ waiting(run.queue, run.head) = Tail(waitingWhenPushed)

\* a priority-queue strategy has just added a successor: the queue with
\* the successor in it, before the cap
pqWhenAdded == Append(run.offer.before.pq, entry(run.strategy, run.offer.board))

\* C26 -- Priority-queue cap: in gbfsSolver, branchBoundSolver and
\* enhancedBranchBoundSolver, when an insertion makes the queue larger
\* than max_queue_size, the element removed is one with the worst
\* (largest) priority value, so an element with the best priority stays.
PqCapRemovesWorst ==
  (/\ successorOffered /\ run.strategy \in {"GBFS", "A*", "EA*"} /\ run.offer.kept
   /\ Len(pqWhenAdded) > run.maxQueueSize) =>
     /\ \E i \in 1..Len(pqWhenAdded) :
          /\ run.pq = removeAt(pqWhenAdded, i)
          /\ \A j \in 1..Len(pqWhenAdded) :
               pqWhenAdded[j].priority <= pqWhenAdded[i].priority
     /\ \E k \in 1..Len(run.pq) :
          \A j \in 1..Len(pqWhenAdded) : run.pq[k].priority <= pqWhenAdded[j].priority

\* ------------------------------------------------------------------------
\* SpecIda: idaStarSolver, one iteration of its while loop at a time
\* ------------------------------------------------------------------------
\* idaStarSolver returned; threshold and iteration are the loop's last
ended(outcome, timedOut) ==
  [threshold |-> run.threshold, iteration |-> run.iteration, timedOut |-> timedOut]
  @@ return("IDA", run.maxSteps, outcome, FALSE)

\* idaStarSolver up to its while loop
IdaStart ==
  /\ run.phase = "called"
  /\ \E maxSteps \in IdaStepLimits :
       run' = IF heuristic(run.initialBoard) = 0
              THEN [threshold |-> 0, iteration |-> 0, timedOut |-> FALSE]
                   @@ return("IDA", maxSteps, Returned(run.initialBoard), FALSE)
              ELSE [phase |-> "iterating", initialBoard |-> run.initialBoard,
                    maxSteps |-> maxSteps, threshold |-> heuristic(run.initialBoard),
                    iteration |-> 0, previous |-> 0, expanded |-> <<>>]
  /\ UNCHANGED notRunVars

\* the test of the while loop and one iteration, with no timeout
IdaIteration ==
  /\ run.phase = "iterating"
  /\ run' = IF ~(run.threshold <= run.maxSteps) THEN ended(Returned(NULL), FALSE)
            ELSE IF idaIterate(run.initialBoard, run.threshold).threw
            THEN ended(Thrown, FALSE)
            ELSE IF idaIterate(run.initialBoard, run.threshold).t = Found
            THEN [expanded |-> idaIterate(run.initialBoard, run.threshold).expanded]
                 @@ ended(Returned(idaIterate(run.initialBoard,
                                              run.threshold).bestSolution), FALSE)
            ELSE IF idaIterate(run.initialBoard, run.threshold).t = Infinity
            THEN [expanded |-> idaIterate(run.initialBoard, run.threshold).expanded]
                 @@ ended(Returned(NULL), FALSE)
            ELSE [run EXCEPT !.threshold = idaIterate(run.initialBoard, run.threshold).t.f,
                             !.previous = run.threshold,
                             !.iteration = @ + 1,
                             !.expanded = idaIterate(run.initialBoard,
                                                     run.threshold).expanded]
  /\ UNCHANGED notRunVars

\* Date.now() passes the timeout during an iteration: search returns -2
IdaTimeout ==
  /\ run.phase = "iterating"
  /\ run.threshold <= run.maxSteps
  /\ run' = ended(Returned(NULL), TRUE)
  /\ UNCHANGED notRunVars

NextIda == IdaStart \/ IdaIteration \/ IdaTimeout

InitIda ==
  /\ heapFields = <<>> /\ heapSeqs = <<>> /\ boards = [b |-> NULL, c |-> NULL]
  /\ last = NoOp
  /\ CoordIdle
  /\ \E initialBoard \in IdaLevels :
       run = [phase |-> "called", initialBoard |-> initialBoard]

SpecIda == InitIda /\ [][NextIda]_vars

\* the ends of the paths an iteration with this bound can walk from board,
\* g moves deep, path being the grid states above it: a node with f over
\* the bound (and its f), a solved board, or a click that throws
RECURSIVE leaves(_, _, _, _)
leaves(board, g, bound, path) ==
  IF g + heuristic(board) > bound
  THEN {[kind |-> "pruned", f |-> g + heuristic(board)]}
  ELSE IF isSolvedBoard(board) THEN {[kind |-> "solved", f |-> g]}
  ELSE IF hash(board) \in path THEN {}
  ELSE UNION {IF tryMove(board, getMoves(board)[k]).threw
              THEN {[kind |-> "threw", f |-> g]}
              ELSE IF ~tryMove(board, getMoves(board)[k]).changed THEN {}
              ELSE leaves(tryMove(board, getMoves(board)[k]).board, g + 1, bound,
                          path \cup {hash(board)}) :
              k \in 1..Len(getMoves(board))}

\* the f values of the nodes an iteration with this bound prunes
prunedIn(bound) ==
  {l.f : l \in {m \in leaves(run.initialBoard, 0, bound, {}) : m.kind = "pruned"}}

kindsIn(bound) == {l.kind : l \in leaves(run.initialBoard, 0, bound, {})}

\* C27 -- IDA* bound protocol: the first iteration's bound is the number of
\* incorrect cells of the initial board; an iteration prunes every node
\* with g + h over the bound and the next bound is the least f among the
\* nodes it pruned; idaStarSolver returns none as soon as no node was
\* pruned or the bound is over max_steps, and returns the solved board as
\* soon as an iteration reaches one within its bound.
IdaBoundProtocol ==
  /\ (run.phase = "iterating" /\ run.iteration = 0) =>
        run.threshold = Cardinality({c \in 0..(run.initialBoard.cols - 1) :
                                       ~isCorrect(run.initialBoard.fields[0][c])})
  /\ (run.phase = "iterating" /\ run.iteration > 0
      /\ "threw" \notin kindsIn(run.previous)) =>
        /\ run.previous <= run.maxSteps
        /\ "solved" \notin kindsIn(run.previous)
        /\ run.threshold \in prunedIn(run.previous)
        /\ \A f \in prunedIn(run.previous) : run.threshold <= f
        /\ run.threshold > run.previous
  /\ (run.phase = "returned" /\ run.strategy = "IDA" /\ ~run.timedOut /\ ~run.threw
      /\ run.threshold > 0 /\ "threw" \notin kindsIn(run.threshold)) =>
        IF run.result = NULL
        THEN \/ run.threshold > run.maxSteps
             \/ kindsIn(run.threshold) = {}
        ELSE /\ run.threshold <= run.maxSteps
             /\ "solved" \in kindsIn(run.threshold)
             /\ isSolvedBoard(run.result)
             /\ run.result.moveSequence.n <= run.threshold

\* an iteration pruned nodes, none with f next to its bound, and the next
\* one runs with the least f among them
BoundJumped ==
  /\ run.phase = "iterating" /\ run.iteration > 0
  /\ "threw" \notin kindsIn(run.previous)
  /\ run.threshold > run.previous + 1
  /\ run.threshold \in prunedIn(run.previous)
  /\ \A f \in prunedIn(run.previous) : run.threshold <= f

\* the grid states on the way from board through the clicks of moves, the
\* last one included
RECURSIVE pathStates(_, _)
pathStates(board, moves) ==
  IF moves = <<>> THEN {hash(board)}
  ELSE {hash(board)}
       \cup pathStates(clickBoard(board, Head(moves).row, Head(moves).col).board,
                       Tail(moves))

\* C28 -- IDA* path set: whenever search goes on to try the cells of a
\* board, the path set holds exactly the grid states of the nodes on the
\* DFS path down to that board, and no grid state occurs twice on the
\* path; a grid state left behind on one branch may be expanded again on
\* another.
IdaPathSet ==
  (run.phase \in {"iterating", "returned"} /\ has(run, "expanded")) =>
     \A i \in 1..Len(run.expanded) :
        /\ run.expanded[i].pathSet
             = pathStates(run.initialBoard, run.expanded[i].board.moveSequence.moves)
        /\ Cardinality(run.expanded[i].pathSet)
             = run.expanded[i].board.moveSequence.n + 1

\* an iteration tried the cells of a board one click deep or more, went
\* back up, and tried the cells of a board on another branch, whose path
\* set is without the first board's grid state
BacktrackedToAnotherBranch ==
  /\ run.phase \in {"iterating", "returned"} /\ has(run, "expanded")
  /\ \E i, j \in 1..Len(run.expanded) :
       /\ i < j
       /\ run.expanded[i].board.moveSequence.n > 0
       /\ run.expanded[j].board.moveSequence.n > 0
       /\ hash(run.expanded[i].board) \notin run.expanded[j].pathSet

\* a click on the logged board leads, within the bound, to an unsolved
\* board whose grid state is on the path: search answers Infinity at
\* pathSet.has(hash)
closesCycle(e, bound) ==
  \E k \in 1..Len(getMoves(e.board)) :
     LET clicked == tryMove(e.board, getMoves(e.board)[k])
     IN /\ ~clicked.threw /\ clicked.changed
        /\ e.board.moveSequence.n + 1 + heuristic(clicked.board) <= bound
        /\ ~isSolvedBoard(clicked.board)
        /\ hash(clicked.board) \in e.pathSet

\* one iteration met a grid state of its path again and gave that path
\* up, and tried the cells of one grid state twice, on two branches,
\* having deleted it from the path set in between
StateExpandedOnTwoBranches ==
  /\ run.phase = "iterating" /\ run.iteration > 0
  /\ \E i \in 1..Len(run.expanded) : closesCycle(run.expanded[i], run.previous)
  /\ \E i, j \in 1..Len(run.expanded) :
       /\ i < j
       /\ hash(run.expanded[i].board) = hash(run.expanded[j].board)
       /\ run.expanded[i].board.moveSequence.moves
            # run.expanded[j].board.moveSequence.moves
       /\ hash(run.expanded[i].board) \notin
            pathStates(run.initialBoard,
                       SubSeq(run.expanded[j].board.moveSequence.moves, 1,
                              run.expanded[j].board.moveSequence.n - 1))

\* the nodes that are children of the root of mctsSolver's tree
rootChildren(tree) == {tree[1].children[k] : k \in 1..Len(tree[1].children)}

\* C29 -- mctsSolver returns the rollout board of the first iteration whose
\* rollout ends solved; when the loop ends with no solved rollout it
\* returns the board of a root child with the most visits, solved or not,
\* if the root has a child, and none if it has no child.
MctsReturns ==
  [][(/\ run.phase = "running" /\ run.strategy = "MCTS"
      /\ run'.phase = "returned" /\ ~run'.threw) =>
       IF run'.fallback
       THEN IF rootChildren(run.tree) = {} THEN run'.result = NULL
            ELSE \E k \in rootChildren(run.tree) :
                   /\ run'.result = run.tree[k].board
                   /\ \A j \in rootChildren(run.tree) :
                        run.tree[j].visits <= run.tree[k].visits
       ELSE /\ isSolvedBoard(run'.result)
            /\ \E selected \in select(run.tree, 1) :
                 \E rollout \in simulate(expand(run.tree, selected).tree[
                                           expand(run.tree, selected).node].board,
                                         0, run.maxSteps) :
                    rollout.board = run'.result]_vars

\* the loop ended with no solved rollout and mctsSolver returned the board
\* of a root child, which is not solved
UnsolvedChildReturned ==
  /\ run.phase = "returned" /\ run.strategy = "MCTS" /\ ~run.threw
  /\ run.fallback
  /\ run.result # NULL
  /\ ~isSolvedBoard(run.result)
  /\ run.result.moveSequence.n = 1

\* ------------------------------------------------------------------------
\* SpecEnhanced: the two branch-and-bound solvers, each run to its return
\* ------------------------------------------------------------------------
\* a priority-queue strategy from its while loop on: what it may return,
\* for every order in which poll() may take elements of equal priority
RECURSIVE pqLoop(_, _, _, _), pqPolled(_, _, _, _, _)
pqLoop(st, strategy, maxSteps, maxQueueSize) ==
  IF st.pq = <<>> THEN {Returned(NULL)}
  ELSE UNION {pqPolled([st EXCEPT !.pq = removeAt(@, i)], st.pq[i], strategy,
                       maxSteps, maxQueueSize) : i \in pollable(st.pq)}

\* the loop body once an element is polled
pqPolled(st, e, strategy, maxSteps, maxQueueSize) ==
  IF polledCase(strategy, e, maxSteps) = "return" THEN {Returned(e.board)}
  ELSE IF polledCase(strategy, e, maxSteps) = "continue"
  THEN pqLoop(st, strategy, maxSteps, maxQueueSize)
  ELSE UNION {IF st2.threw THEN {Thrown}
              ELSE pqLoop(st2, strategy, maxSteps, maxQueueSize) :
              st2 \in pqMoves(st, e.board, getMoves(e.board), strategy, maxQueueSize)}

\* the strategy from its first line on
pqSolver(strategy, initialBoard, maxSteps, maxQueueSize) ==
  pqLoop([pq |-> <<rootEntry(strategy, initialBoard)>>,
          seen |-> {<<hash(initialBoard), 0>>}, threw |-> FALSE],
         strategy, maxSteps, maxQueueSize)

\* ------------------------------------------------------------------------
\* SpecMain's levels: what the workers of the coordinator find for a level
\* ------------------------------------------------------------------------
\* solverMap[solverName](board, debug) in a worker: what the call may end
\* with.  On a board of these levels DEFAULT_MAX_STEPS never cuts dfs
\* short, so dfsSolver clicks every cell of every board that can be reached;
\* when it returns null no such board is solved and no such click throws,
\* and the queue strategies, which go through the same boards once for
\* every number of moves up to the limit, return null as well.
solverMap(solverName, board) ==
  IF solverName = "DFS" THEN {dfsSolver(board, DEFAULT_MAX_STEPS)}
  ELSE IF solverName = "IDA" THEN {idaStarSolver(board, DEFAULT_MAX_STEPS, FALSE)}
  ELSE IF dfsSolver(board, DEFAULT_MAX_STEPS) = Returned(NULL) THEN {Returned(NULL)}
  ELSE IF solverName = "BFS"
  THEN {bfsSolver(board, DEFAULT_MAX_STEPS, DEFAULT_MAX_QUEUE_SIZE)}
  ELSE pqSolver("A*", board, DEFAULT_MAX_STEPS, DEFAULT_MAX_QUEUE_SIZE)

\* ------------------------------------------------------------------------
\* SpecCoord's levels: the boards main hands to the coordinator
\* ------------------------------------------------------------------------
\* the grid of rows of cells written from the top left
gridOf(rows) ==
  [r \in 0..(Len(rows) - 1) |-> [c \in 0..(Len(rows[1]) - 1) |-> rows[r + 1][c + 1]]]

\* color rr0, modifier R0w: an arrow that paints the cell to its right,
\* and a rotating arrow of no color whose clicks only lengthen a solution;
\* every strategy comes back with A1
CoordLevel ==
  boardOf(1, 3, gridOf(<< <<Field("r", "R"), Field("r", "0"), Field("0", "w")>> >>))

\* color rrr rrr, modifier DR0 00L: A1 paints A2, B1 paints C1, C2 paints
\* B2 and then A2 when A2 is empty.  B1,C2 solves it; dfsSolver and
\* idaStarSolver, which click A1 first, come back with A1,B1,C2
DetourLevel ==
  boardOf(2, 3, gridOf(<< <<Field("r", "D"), Field("r", "R"), Field("r", "0")>>,
                          <<Field("r", "0"), Field("r", "0"), Field("r", "L")>> >>))

\* color rr00, modifier R00F: A1 solves it, and the click of the flood
\* cell D1 on the empty cells next to it throws; idaStarSolver returns
\* once A1 solved the board, the other strategies click D1 as well
FloodLevel ==
  boardOf(1, 4, gridOf(<< <<Field("r", "R"), Field("r", "0"), Field("0", "0"),
                            Field("0", "F")>> >>))

\* color rrr, modifier 0Rr: nothing paints A1; every strategy returns null
DeadLevel ==
  boardOf(1, 3, gridOf(<< <<Field("r", "0"), Field("r", "R"), Field("r", "r")>> >>))

CoordLevels == {CoordLevel, DetourLevel, FloodLevel, DeadLevel}

\* the solution attribute the level comes with: none, or C1,A1
ExistingSolutions == {<<>>, <<<<"C", 1>>, <<"A", 1>>>>}

\* main read the level and called solveWithAllStrategiesParallel(board),
\* which spawned a worker for each strategy with boardToData(board)
InitCoord ==
  /\ heapFields = <<>> /\ heapSeqs = <<>> /\ boards = [b |-> NULL, c |-> NULL]
  /\ last = NoOp
  /\ wstate = [w \in Workers |-> "running"]
  /\ terminated = [w \in Workers |-> FALSE]
  /\ chan = [w \in Workers |-> <<>>]
  /\ resolved = [w \in Workers |-> FALSE]
  /\ results = <<>>
  /\ coord = [phase |-> "awaiting"]
  /\ posted = [w \in Workers |-> NULL]
  /\ \E level \in CoordLevels, existingSolution \in ExistingSolutions :
       /\ run = [phase |-> "idle", boardData |-> boardToData(level),
                 outcomes |-> [w \in Workers |->
                                 solverMap(Solvers[w],
                                           boardFromData(boardToData(level)))]]
       /\ caller = [phase |-> "awaiting",
                    existingSolution |-> existingSolution,
                    existingBoard |-> IF existingSolution # <<>>
                                      THEN tryExistingSolution(level, existingSolution)
                                      ELSE NULL,
                    existingMoves |-> IF existingSolution # <<>>
                                         /\ tryExistingSolution(level, existingSolution) # NULL
                                      THEN countMoves(existingSolution) ELSE NULL]

SpecCoord == InitCoord /\ [][NextCoord]_vars

\* a run of main on a level that has no solution stored yet
InitFresh == InitCoord /\ caller.existingSolution = <<>>

\* The event loop handles a pending event, terminate() stops a running
\* thread, and the continuations of the awaits run; nothing makes a
\* strategy finish its search.
FairSpecCoord ==
  /\ InitFresh
  /\ [][NextCoord]_vars
  /\ WF_vars(EventLoop)
  /\ WF_vars(Cancelled)
  /\ WF_vars(Return)
  /\ WF_vars(MainChoose)

\* the boards the message of the worker of solverName may add to results:
\* the worker runs the strategy on boardFromData(boardData) and posts
\* boardToData(result), the coordinator pushes boardFromData(msg.result)
\* when msg.solved
workerBoards(solverName, level) ==
  {boardFromData(boardToData(o.result)) :
     o \in {p \in solverMap(solverName, boardFromData(boardToData(level))) :
              ~p.threw /\ p.result # NULL /\ isSolvedBoard(p.result)}}

\* for each of the four workers, the boards it may add to results
foundBy(level) == [i \in Workers |-> workerBoards(Solvers[i], level)]

\* what solveWithAllStrategiesParallel may return for a level: null when
\* no worker sent a solved board, or the first one or the first SliceEnd
\* boards of results, which holds the solved boards of different workers
\* in the order their messages came
returnsFor(found) ==
  {returnValue(<<>>)}
    \cup UNION {{returnValue(<<s>>) : s \in found[i]} : i \in DOMAIN found}
    \cup UNION {{returnValue(<<s, t>>) : s \in found[p[1]], t \in found[p[2]]} :
                  p \in {q \in (DOMAIN found) \X (DOMAIN found) : q[1] # q[2]}}

\* the solution attribute a level may come with: none, the moves of a
\* board a strategy finds, one of its solutions of few moves, or a single
\* click that may solve the level or not
solutionsFor(level, found) ==
  {<<>>} \cup {toString(s.moveSequence) : s \in UNION {found[i] : i \in DOMAIN found}}
         \cup {toString(s.moveSequence) : s \in solutionsWithin(level, MaxSteps)}
         \cup {<<moveString(Position(0, c))>> : c \in 0..(level.cols - 1)}

InitMain ==
  /\ heapFields = <<>> /\ heapSeqs = <<>> /\ boards = [b |-> NULL, c |-> NULL]
  /\ last = NoOp
  /\ wstate = <<>> /\ terminated = <<>> /\ chan = <<>> /\ resolved = <<>>
  /\ results = <<>> /\ posted = <<>>
  /\ \E level \in SolveLevels :
       \E found \in {foundBy(level)} :
          \E ret \in returnsFor(found), existingSolution \in solutionsFor(level, found) :
             /\ run = [phase |-> "idle", level |-> level]
             /\ coord = [phase |-> "returned", value |-> ret]
             /\ caller = [phase |-> "awaiting",
                          existingSolution |-> existingSolution,
                          existingBoard |-> IF existingSolution # <<>>
                                            THEN tryExistingSolution(level, existingSolution)
                                            ELSE NULL,
                          existingMoves |-> IF existingSolution # <<>>
                                               /\ tryExistingSolution(level, existingSolution) # NULL
                                            THEN countMoves(existingSolution) ELSE NULL]

SpecMain == InitMain /\ [][NextMain]_vars

BranchBoundCall ==
  /\ run.phase = "called"
  /\ \E maxSteps \in StepLimits, maxQueueSize \in QueueSizes :
       run' = [phase |-> "solved", strategy |-> "A*", initialBoard |-> run.initialBoard,
               maxSteps |-> maxSteps, maxQueueSize |-> maxQueueSize,
               outcomes |-> pqSolver("A*", run.initialBoard, maxSteps, maxQueueSize)]
  /\ UNCHANGED notRunVars

EnhancedBranchBoundCall ==
  /\ run.phase = "called"
  /\ \E maxSteps \in StepLimits, maxQueueSize \in QueueSizes :
       run' = [phase |-> "solved", strategy |-> "EA*", initialBoard |-> run.initialBoard,
               maxSteps |-> maxSteps, maxQueueSize |-> maxQueueSize,
               outcomes |-> pqSolver("EA*", run.initialBoard, maxSteps, maxQueueSize)]
  /\ UNCHANGED notRunVars

NextEnhanced == BranchBoundCall \/ EnhancedBranchBoundCall

SpecEnhanced == InitSolve /\ [][NextEnhanced]_vars

\* the initial board, the boards one click from it, and the boards returned
boardsMet ==
  {run.initialBoard}
  \cup {tryMove(run.initialBoard, getMoves(run.initialBoard)[k]).board :
          k \in {j \in 1..Len(getMoves(run.initialBoard)) :
                   ~tryMove(run.initialBoard, getMoves(run.initialBoard)[j]).threw}}
  \cup {o.result : o \in {p \in run.outcomes : p.result # NULL}}

\* C30 -- No cell carries the optional hints, so the enhanced heuristic and
\* the GBFS heuristic equal the number of incorrect cells on every board,
\* and enhancedBranchBoundSolver returns the same board as
\* branchBoundSolver for every initial board, max_steps and max_queue_size.
EnhancedEqualsBranchBound ==
  run.phase = "solved" =>
     /\ \A b \in boardsMet :
          /\ enhancedHeuristic(b) = heuristic(b)
          /\ gbfsHeuristic(b) = heuristic(b)
          /\ entry("EA*", b).priority = entry("A*", b).priority
     /\ run.outcomes = pqSolver(IF run.strategy = "EA*" THEN "A*" ELSE "EA*",
                                run.initialBoard, run.maxSteps, run.maxQueueSize)

\* enhancedBranchBoundSolver returned a solved board one click from an
\* initial board with incorrect cells, out of a queue the cap had cut
EnhancedSolvedUnderCap ==
  /\ run.phase = "solved" /\ run.strategy = "EA*"
  /\ heuristic(run.initialBoard) > 0
  /\ run.maxQueueSize = 1
  /\ Len(getMoves(run.initialBoard)) = 2
  /\ \E o \in run.outcomes : /\ o.result # NULL
                             /\ o.result.moveSequence.n = 1
                             /\ isSolvedBoard(o.result)

\* ------------------------------------------------------------------------
\* SpecParse: Board.fromStrings on the color and modifier strings of a level
\* ------------------------------------------------------------------------
\* a string is the sequence of its characters; the color string has at
\* most this many
MaxChars == 5

isSpace(ch) == ch = " "

\* String.prototype.trim
RECURSIVE trimStart(_), trimEnd(_)
trimStart(s) ==
  IF s # <<>> /\ isSpace(Head(s)) THEN trimStart(Tail(s)) ELSE s

trimEnd(s) ==
  IF s # <<>> /\ isSpace(s[Len(s)]) THEN trimEnd(SubSeq(s, 1, Len(s) - 1)) ELSE s

trim(s) == trimEnd(trimStart(s))

\* a split that takes every whitespace character for a separator of its own
RECURSIVE splitEach(_, _, _, _)
splitEach(s, cur, acc, inSep) ==
  IF s = <<>> THEN Append(acc, cur)
  ELSE IF isSpace(Head(s)) THEN splitEach(Tail(s), <<>>, Append(acc, cur), TRUE)
  ELSE splitEach(Tail(s), Append(cur, Head(s)), acc, FALSE)

\* s.split(/\s+/) from the characters left in s on: cur is the piece being
\* read, acc the pieces read, inSep whether the last character was
\* whitespace
RECURSIVE split(_, _, _, _)
split(s, cur, acc, inSep) ==
  IF s = <<>> THEN Append(acc, cur)
  ELSE IF isSpace(Head(s))
  THEN IF inSep THEN split(Tail(s), cur, acc, TRUE)
       ELSE split(Tail(s), <<>>, Append(acc, cur), TRUE)
  ELSE split(Tail(s), Append(cur, Head(s)), acc, FALSE)

\* lines.join("")
RECURSIVE join(_)
join(lines) == IF lines = <<>> THEN <<>> ELSE Head(lines) \o join(Tail(lines))

\* Math.max(...lines.map(l => l.length))
RECURSIVE maxLength(_)
maxLength(lines) ==
  IF lines = <<>> THEN 0
  ELSE IF Len(Head(lines)) > maxLength(Tail(lines)) THEN Len(Head(lines))
  ELSE maxLength(Tail(lines))

\* the board built from the lines of the two strings
fromLines(colorLines, modifierLines, rows, cols) ==
  [rows |-> rows, cols |-> cols,
   fields |-> [r \in 0..(rows - 1) |-> [c \in 0..(cols - 1) |->
      IF r * cols + c >= Len(join(colorLines)) \/ r * cols + c >= Len(join(modifierLines))
      THEN Field("0", "X")
      ELSE Field(join(colorLines)[r * cols + c + 1],
                 join(modifierLines)[r * cols + c + 1])]],
   moveSequence |-> MoveSequence, hasBombs |-> FALSE]

\* Board.fromStrings
fromStrings(colorStr, modifierStr) ==
  fromLines(split(trim(colorStr), <<>>, <<>>, FALSE),
            split(trim(modifierStr), <<>>, <<>>, FALSE),
            IF Len(split(trim(colorStr), <<>>, <<>>, FALSE))
                 > Len(split(trim(modifierStr), <<>>, <<>>, FALSE))
            THEN Len(split(trim(colorStr), <<>>, <<>>, FALSE))
            ELSE Len(split(trim(modifierStr), <<>>, <<>>, FALSE)),
            IF maxLength(split(trim(colorStr), <<>>, <<>>, FALSE))
                 > maxLength(split(trim(modifierStr), <<>>, <<>>, FALSE))
            THEN maxLength(split(trim(colorStr), <<>>, <<>>, FALSE))
            ELSE maxLength(split(trim(modifierStr), <<>>, <<>>, FALSE)))

\* the strings of at most n characters over an alphabet
Strings(alphabet, n) == UNION {[1..k -> alphabet] : k \in 0..n}

InitParse ==
  /\ heapFields = <<>> /\ heapSeqs = <<>> /\ boards = [b |-> NULL, c |-> NULL]
  /\ last = NoOp
  /\ CoordIdle
  /\ \E colorStr \in Strings({"r", "g", " "}, MaxChars),
        modifierStr \in Strings({"R", "0", " "}, MaxChars - 2) :
       run = [phase |-> "read", colorStr |-> colorStr, modifierStr |-> modifierStr]

FromStrings ==
  /\ run.phase = "read"
  /\ run' = [phase |-> "built", colorStr |-> run.colorStr,
             modifierStr |-> run.modifierStr,
             board |-> fromStrings(run.colorStr, run.modifierStr)]
  /\ UNCHANGED notRunVars

NextParse == FromStrings

SpecParse == InitParse /\ [][NextParse]_vars

\* the string without its whitespace
notSpace(ch) == ch # " "
stripped(s) == SelectSeq(s, notSpace)

\* the rows of a string: its runs of characters other than whitespace, each
\* given by its first and last index; a blank string is one empty row
rowsOf(s) ==
  {<<i, j>> \in (1..Len(s)) \X (1..Len(s)) :
     /\ i <= j
     /\ \A k \in i..j : notSpace(s[k])
     /\ (i = 1 \/ isSpace(s[i - 1]))
     /\ (j = Len(s) \/ isSpace(s[j + 1]))}

nRows(s) == IF rowsOf(s) = {} THEN 1 ELSE Cardinality(rowsOf(s))

maxOf(S) == CHOOSE m \in S : \A n \in S : n <= m

longestRow(s) == maxOf({0} \cup {ij[2] - ij[1] + 1 : ij \in rowsOf(s)})

\* the first index of row r (from 0) of a string
rowStart(s, r) ==
  CHOOSE i \in 1..Len(s) :
    /\ \E j \in 1..Len(s) : <<i, j>> \in rowsOf(s)
    /\ Cardinality({ij \in rowsOf(s) : ij[1] < i}) = r

\* every row of the two strings has the same length, and both strings have
\* as many rows
equalRows(colorStr, modifierStr) ==
  /\ rowsOf(colorStr) # {} /\ Cardinality(rowsOf(colorStr)) = Cardinality(rowsOf(modifierStr))
  /\ \A ij \in rowsOf(colorStr) \cup rowsOf(modifierStr) :
       ij[2] - ij[1] + 1 = longestRow(colorStr)

\* C31 -- Board.fromStrings builds a board with rows = max(number of color
\* rows, number of modifier rows) and cols = the longest row length; cell
\* (r,c) takes the characters at index r*cols+c of the whitespace-stripped
\* color and modifier strings, a cell whose index is beyond the end of
\* either stripped string gets color '0' and modifier 'X'; for equal-length
\* rows cell (r,c) is character c of row r.
FromStringsLayout ==
  run.phase = "built" =>
     /\ run.board.rows = maxOf({nRows(run.colorStr), nRows(run.modifierStr)})
     /\ run.board.cols = maxOf({longestRow(run.colorStr), longestRow(run.modifierStr)})
     /\ DOMAIN run.board.fields = 0..(run.board.rows - 1)
     /\ \A r \in 0..(run.board.rows - 1) :
          /\ DOMAIN run.board.fields[r] = 0..(run.board.cols - 1)
          /\ \A c \in 0..(run.board.cols - 1) :
               IF \/ r * run.board.cols + c >= Len(stripped(run.colorStr))
                  \/ r * run.board.cols + c >= Len(stripped(run.modifierStr))
               THEN /\ run.board.fields[r][c].color = "0"
                    /\ run.board.fields[r][c].modifier = "X"
               ELSE /\ run.board.fields[r][c].color
                         = stripped(run.colorStr)[r * run.board.cols + c + 1]
                    /\ run.board.fields[r][c].modifier
                         = stripped(run.modifierStr)[r * run.board.cols + c + 1]
     /\ equalRows(run.colorStr, run.modifierStr) =>
          \A r \in 0..(run.board.rows - 1), c \in 0..(run.board.cols - 1) :
             /\ run.board.fields[r][c].color
                  = run.colorStr[rowStart(run.colorStr, r) + c]
             /\ run.board.fields[r][c].modifier
                  = run.modifierStr[rowStart(run.modifierStr, r) + c]

\* a board of two rows and two columns built from a color string with
\* rows of different lengths and whitespace to strip; the third cell has a
\* color character but is beyond the end of the modifiers
RaggedRowsBuilt ==
  /\ run.phase = "built"
  /\ run.board.rows = 2 /\ run.board.cols = 2
  /\ Len(run.colorStr) = 5
  /\ Len(stripped(run.colorStr)) = 3
  /\ Len(stripped(run.modifierStr)) = 2
  /\ run.board.fields[0][1].color = "g"
  /\ run.board.fields[0][1].modifier = "0"
  /\ run.board.fields[1][0].color = "0"
  /\ run.board.fields[1][0].modifier = "X"

\* C32 -- Click frame: click(r,c) changes only cell modifiers and the move
\* sequence: the board's rows and cols, every cell's color, every cell's
\* onlyReachableFrom and the hasBombs flag are after each click, and so
\* after any sequence of clicks, what they were before.
ClickFrame ==
  [][last'.op = "click" =>
       /\ boards' = boards
       /\ DOMAIN heapFields' = DOMAIN heapFields
       /\ \A i \in DOMAIN heapFields :
            /\ heapFields'[i].color = heapFields[i].color
            /\ heapFields'[i].onlyReachableFrom = heapFields[i].onlyReachableFrom]_vars

\* two clicks were made, the second on a bomb, whose own modifier is now
\* its color
ModifiersChangedByTwoClicks ==
  /\ last.op = "click" /\ last.mod = "B" /\ ~last.threw
  /\ heapSeqs[boards.b.moveSequence].n = 2
  /\ heapFields[boards.b.fields[last.row][last.col]].modifier = "r"
  /\ heapFields[boards.b.fields[last.row][last.col]].color = "r"

\* ------------------------------------------------------------------------
\* SpecHandoff: a board passed between the coordinator and a worker thread
\* ------------------------------------------------------------------------
\* the side that holds a board: a level whose cells are reachable from
\* anywhere or from one position only
InitHandoff ==
  /\ heapFields = <<>> /\ heapSeqs = <<>> /\ boards = [b |-> NULL, c |-> NULL]
  /\ last = NoOp
  /\ CoordIdle
  /\ \E board \in MoveLevels, hasBombs \in BOOLEAN :
       run = [phase |-> "held", board |-> [board EXCEPT !.hasBombs = hasBombs]]

\* the holder clicks one of the moves of its board and keeps the board when
\* the click changed it: if (!newBoard.click(r, c)) continue;
HeldClick ==
  /\ run.phase = "held"
  /\ run.board.moveSequence.n < MaxMoves
  /\ \E k \in 1..Len(getMoves(run.board)) :
       /\ ~tryMove(run.board, getMoves(run.board)[k]).threw
       /\ tryMove(run.board, getMoves(run.board)[k]).changed
       /\ run' = [run EXCEPT !.board = tryMove(run.board, getMoves(run.board)[k]).board]
  /\ UNCHANGED notRunVars

\* workerData: { boardData: boardToData(board) } and
\* postMessage({ result: boardToData(result) })
PostData ==
  /\ run.phase = "held"
  /\ run' = [phase |-> "posted", board |-> run.board, data |-> boardToData(run.board)]
  /\ UNCHANGED notRunVars

\* boardFromData(boardData) in the worker, boardFromData(msg.result) in the
\* coordinator
ReceiveData ==
  /\ run.phase = "posted"
  /\ run' = [phase |-> "received", board |-> run.board, data |-> run.data,
             rebuilt |-> boardFromData(run.data)]
  /\ UNCHANGED notRunVars

NextHandoff == HeldClick \/ PostData \/ ReceiveData

SpecHandoff == InitHandoff /\ [][NextHandoff]_vars

\* C33 -- Worker hand-off round trip: boardFromData(boardToData(b)) has the
\* dimensions, cell colors and modifiers, move list, move count and hasBombs
\* of b, a cell whose onlyReachableFrom is the NONE sentinel in b has the NONE
\* sentinel in the result, and the moves enumerated from the result are the
\* moves enumerated from b.
HandoffRoundTrip ==
  run.phase = "received" =>
    /\ run.rebuilt.rows = run.board.rows
    /\ run.rebuilt.cols = run.board.cols
    /\ \A r \in 0..(run.board.rows - 1), c \in 0..(run.board.cols - 1) :
         /\ run.rebuilt.fields[r][c].color = run.board.fields[r][c].color
         /\ run.rebuilt.fields[r][c].modifier = run.board.fields[r][c].modifier
         /\ run.board.fields[r][c].onlyReachableFrom = POSITION_NONE
              => run.rebuilt.fields[r][c].onlyReachableFrom = POSITION_NONE
    /\ Len(run.rebuilt.moveSequence.moves) = Len(run.board.moveSequence.moves)
    /\ \A i \in 1..Len(run.board.moveSequence.moves) :
         /\ run.rebuilt.moveSequence.moves[i].row = run.board.moveSequence.moves[i].row
         /\ run.rebuilt.moveSequence.moves[i].col = run.board.moveSequence.moves[i].col
    /\ run.rebuilt.moveSequence.n = run.board.moveSequence.n
    /\ run.rebuilt.hasBombs = run.board.hasBombs
    /\ getMoves(run.rebuilt) = getMoves(run.board)

\* a board of two moves, both of which changed it, was rebuilt whose cell
\* (0, 0) is a clickable cell with the sentinel and whose cell (0, 1) is
\* reachable from (1, 0) only: the moves of the rebuilt board begin with
\* (0, 0) and leave (0, 1) out
SentinelCellRebuilt ==
  /\ run.phase = "received"
  /\ run.board.moveSequence.n = 2
  /\ run.board.fields[0][0].onlyReachableFrom = POSITION_NONE
  /\ isClickable(run.board.fields[0][0])
  /\ run.board.fields[0][1].onlyReachableFrom = Position(1, 0)
  /\ isClickable(run.board.fields[0][1])
  /\ Len(getMoves(run.rebuilt)) >= 1
  /\ getMoves(run.rebuilt)[1] = Position(0, 0)
  /\ \A k \in 1..Len(getMoves(run.rebuilt)) : getMoves(run.rebuilt)[k] # Position(0, 1)

\* C34 -- Click termination: every call click(r, c) on an in-bounds cell of
\* a board whose cells have a color in {r, g, b, o, d, 0} and any modifier
\* returns: no flood recurses until the call stack is exhausted, also when
\* the F cell's color is '0'.
ClickTerminates ==
  last.op = "click" => ~last.threw

\* C35 -- Click result: a click on a cell of a playable color returns true
\* exactly when the modifier of at least one cell is another after the click
\* than before it, and a click on any cell that returns false has changed no
\* cell's modifier.
ClickResult ==
  [][(last'.op = "click" /\ ~last'.threw) =>
       /\ isColor(heapFields[boards.b.fields[last'.row][last'.col]].color)
            => (last'.changed <=>
                  \E i \in DOMAIN heapFields :
                     heapFields'[i].modifier # heapFields[i].modifier)
       /\ ~last'.changed
            => \A i \in DOMAIN heapFields :
                  heapFields'[i].modifier = heapFields[i].modifier]_vars

\* an arrow of color r was clicked and nothing was in its way to paint or
\* erase: the click returned false and the row is what it was
ArrowChangedNothing ==
  /\ last.op = "click" /\ ~last.threw /\ ~last.changed
  /\ last.mod = "R" /\ last.row = 0 /\ last.col = 0
  /\ boards.b.cols = 3
  /\ heapFields[boards.b.fields[0][0]] = Field("r", "R")
  /\ heapFields[boards.b.fields[0][1]].modifier = "X"
  /\ heapFields[boards.b.fields[0][2]].modifier = "0"

\* the boards that k clicks, each on any cell of the board, lead to
RECURSIVE clickedTimes(_, _)
clickedTimes(board, k) ==
  IF k = 0 THEN {board}
  ELSE UNION {{clickBoard(b, p[1], p[2]).board :
                 p \in {q \in (0..(b.rows - 1)) \X (0..(b.cols - 1)) :
                          ~clickBoard(b, q[1], q[2]).threw}} :
              b \in clickedTimes(board, k - 1)}

\* the lengths, up to maxSteps, of the click sequences that solve the board
solvingLengths(board, maxSteps) ==
  {k \in 0..maxSteps : \E b \in clickedTimes(board, k) : isSolvedBoard(b)}

\* bfsSolver returned and every board it pushed is still in its queue
bfsReturnedUncapped ==
  /\ run.phase = "returned" /\ run.strategy = "BFS" /\ ~run.threw
  /\ Len(run.queue) = Cardinality(run.enqueued)

\* C36 -- When the queue cap is never exceeded, bfsSolver returns a solved
\* board whose move count is the least length of the click sequences of at
\* most max_steps clicks that solve the initial board, and returns none
\* only if there is no such sequence.
BfsFewestMoves ==
  bfsReturnedUncapped =>
    /\ run.result = NULL => solvingLengths(run.initialBoard, run.maxSteps) = {}
    /\ run.result # NULL =>
         /\ isSolvedBoard(run.result)
         /\ run.result.moveSequence.n \in solvingLengths(run.initialBoard, run.maxSteps)
         /\ \A k \in solvingLengths(run.initialBoard, run.maxSteps) :
               run.result.moveSequence.n <= k

\* bfsSolver returned a board of two moves from a queue that lost no board,
\* and no single click solves the level
BfsTwoMovesNeeded ==
  /\ bfsReturnedUncapped
  /\ run.result # NULL
  /\ run.result.moveSequence.n = 2
  /\ solvingLengths(run.initialBoard, run.maxSteps) = {2}

\* C37 -- Step limit: started on a board with an empty move sequence, every
\* board that dfsSolver, bfsSolver, gbfsSolver, branchBoundSolver,
\* enhancedBranchBoundSolver or idaStarSolver returns has at most max_steps
\* moves.
ResultWithinStepLimit ==
  (/\ run.phase = "returned"
   /\ run.strategy \in {"DFS", "BFS", "GBFS", "A*", "EA*", "IDA"}
   /\ ~run.threw
   /\ run.initialBoard.moveSequence.n = 0
   /\ run.result # NULL)
    => run.result.moveSequence.n <= run.maxSteps

\* idaStarSolver returned a board of exactly max_steps moves, two of them
ReturnedAtStepLimit ==
  /\ run.phase = "returned" /\ run.strategy = "IDA" /\ ~run.threw
  /\ run.result # NULL
  /\ run.maxSteps = 2
  /\ run.result.moveSequence.n = 2

\* ------------------------------------------------------------------------
\* SpecHalt: the six strategies with no wall-clock timeout, one loop
\* iteration at a time; dfsSolver is one call with its recursion logged
\* ------------------------------------------------------------------------
NextHalt ==
  \/ DfsSkipping
  \/ BfsStart \/ BfsPop \/ BfsOffer
  \/ GbfsLoop \/ BranchBoundLoop \/ EnhancedBranchBoundLoop
  \/ IdaStart \/ IdaIteration

SpecHalt == InitSolve /\ [][NextHalt]_vars

\* the keys a queue strategy has recorded, and the boards it has yet to poll
keysOf(st) == IF st.strategy = "BFS" THEN st.visited ELSE st.seen

pendingOf(st) == IF st.strategy = "BFS" THEN Len(st.queue) - st.head ELSE Len(st.pq)

\* a step of a queue strategy ends it, or records a new key, or leaves the
\* keys and polls a board, or leaves both and is done with a cell, or
\* leaves all three and ends the two for loops
queueAdvances ==
  \/ run'.phase = "returned"
  \/ keysOf(run) \subseteq keysOf(run') /\ keysOf(run) # keysOf(run')
  \/ /\ keysOf(run') = keysOf(run)
     /\ \/ pendingOf(run') < pendingOf(run)
        \/ /\ pendingOf(run') = pendingOf(run)
           /\ \/ Len(run'.moves) < Len(run.moves)
              \/ /\ run'.moves = run.moves
                 /\ run.phase = "expanding" /\ run'.phase = "polling"

\* C38 -- Termination: with the wall-clock timeout disabled, dfsSolver,
\* bfsSolver, gbfsSolver, branchBoundSolver, enhancedBranchBoundSolver and
\* idaStarSolver each come to their end on every board and step limit, also
\* when clicks lead back to a grid met before.  dfs expands no grid twice
\* and no board of more than max_steps moves; every step of a queue
\* strategy advances in an order with no endless descent, its keys being
\* grids paired with a move count of at most max_steps; each iteration of
\* idaStarSolver runs with a bound strictly greater than the one before and
\* at most max_steps, and expands no board of more moves than its bound.
SolversTerminate ==
  [][/\ run.phase = "called" =>
          run'.phase \in {"searched", "polling", "iterating", "returned"}
     /\ run'.phase = "searched" =>
          /\ \A i \in 1..Len(run'.log.expanded) :
                run'.log.expanded[i].moveSequence.n <= run'.maxSteps
          /\ \A i, j \in 1..Len(run'.log.expanded) :
                i # j => hash(run'.log.expanded[i]) # hash(run'.log.expanded[j])
     /\ run.phase \in {"polling", "expanding"} =>
          /\ queueAdvances
          /\ run'.phase # "returned" =>
                \A key \in keysOf(run') : key[2] <= run'.maxSteps
     /\ run.phase = "iterating" =>
          /\ run.threshold > run.maxSteps => run'.phase = "returned"
          /\ run'.phase # "returned" =>
                /\ run'.threshold > run.threshold
                /\ \A i \in 1..Len(run'.expanded) :
                      run'.expanded[i].board.moveSequence.n <= run.threshold]_vars

\* bfsSolver came to its end on a level it cannot solve, after it pushed a
\* board of two moves whose grid is the grid it started from
EndedDespiteCycle ==
  /\ run.phase = "returned" /\ run.strategy = "BFS" /\ ~run.threw
  /\ run.result = NULL
  /\ \E b \in run.enqueued :
        /\ b.moveSequence.n = 2
        /\ b.fields = run.initialBoard.fields

\* main went through its choice for a level whose solution attribute
\* replays to a solved board
choseWithValidSolution ==
  /\ caller.phase = "chosen"
  /\ caller.existingSolution # <<>>
  /\ caller.existingBoard # NULL
  /\ ~(has(caller, "threw") /\ caller.threw)

\* C39 -- Existing solutions: when the solution string a level comes with
\* replays to a solved board, the solution recorded for the level also
\* replays to a solved board and has no more moves than the existing one,
\* and it is another string than the existing one only if it has strictly
\* fewer moves.
ExistingSolutionNeverWorsened ==
  choseWithValidSolution =>
    /\ tryExistingSolution(run.level, caller.solutionStr) # NULL
    /\ countMoves(caller.solutionStr) <= countMoves(caller.existingSolution)
    /\ caller.solutionStr # caller.existingSolution
         => countMoves(caller.solutionStr) < countMoves(caller.existingSolution)

\* a level came with a solution of two moves, a strategy found one of one
\* move, and that one was recorded
ShorterSolutionRecorded ==
  /\ choseWithValidSolution
  /\ countMoves(caller.existingSolution) = 2
  /\ countMoves(caller.solutionStr) = 1
  /\ caller.chosenBoard # caller.existingBoard

\* the workers that sent a solved result message, and those whose message
\* the event loop has yet to handle
sentSolved == {w \in Workers : posted[w] # NULL /\ posted[w].solved /\ posted[w].result # NULL}

pendingSolved ==
  {w \in sentSolved : chan[w] # <<>> /\ Head(chan[w]) = MessageEvent(posted[w])}

\* C40 -- No lost result: a solved result message a worker sent, before the
\* coordinator received K solved results or after, is either still ahead of
\* that worker's exit event or was added to results, however the events of
\* the workers interleave; when the coordinator reads results and returns,
\* every one of them was added.
NoLostResult ==
  /\ \A w \in sentSolved \ pendingSolved :
        \E i \in 1..Len(results) : results[i] = boardFromData(posted[w].result)
  /\ \A w \in pendingSolved : ~resolved[w] /\ coord.phase = "awaiting"
  /\ Len(results) = Cardinality(sentSolved \ pendingSolved)
  /\ coord.phase = "returned" => pendingSolved = {}

\* the coordinator returned with the results of three workers: the third
\* message was handled after K results were received and every worker was
\* terminated, one of them in mid-search
ThirdResultKept ==
  /\ coord.phase = "returned"
  /\ Cardinality(sentSolved) = 3
  /\ Len(results) = 3
  /\ \E w \in Workers : wstate[w] = "killed"

====
